---------------------------- MODULE Spec2Model ----------------------------
(***************************************************************************)
(* A model of the AudioViz visualizer: the adaptive normalizer and the     *)
(* temporal smoother of PyGameRenderer, its particle pool, its terrain     *)
(* history, the frame renderer render() with its nine modes, and the two   *)
(* audio sources.                                                          *)
(*                                                                         *)
(* Numbers.  The program computes with floats; the model computes with     *)
(* fixed-point integers in units of 1/ONE (ONE represents 1.0), rounding   *)
(* every product and quotient toward minus infinity.  Inputs are drawn on  *)
(* a grid coarse enough that the halvings the claims speak about are       *)
(* exact.  Time is counted in update steps dt (one step = 1/60 s).         *)
(*                                                                         *)
(* Arrays.  A numpy array of shape (c, n) is a sequence of c sequences of  *)
(* n numbers; indices are 1-based in the model and 0-based in the source.  *)
(* A value that may be None is a sequence of length at most one: None is   *)
(* the empty sequence and Some(x) holds x.                                 *)
(***************************************************************************)
EXTENDS Integers, Sequences, FiniteSets, TLC

\* ------------------------------------------------------------------------
\* Bounds of the model
\* ------------------------------------------------------------------------

\* input magnitudes are 0, HALF, 2*HALF, ..., MaxLevel*HALF
MaxLevel == 4
\* bins per channel of the spectra given to the normalizer and the smoother
MaxBins == 2
\* decimal digits the smoother's inputs keep below their grid: that many
\* consecutive blends are exact in fixed point
SmoothDepth == 2
\* slots of the particle pool (ParticleSystem's max_particles)
MaxParticles == 3
\* lifetimes given to spawn are 0..MaxLifetime update steps
MaxLifetime == 2
\* capacity of each terrain history: deque(maxlen=40) in the source, a
\* parameter here
TERRAIN_HISTORY_DEPTH == 3
\* terrain renders made beyond the capacity of the histories
TerrainExtra == 2
\* frames per block (config audio.chunk_size, 1024 by default)
CHUNK_SIZE == 3
\* frames of the audio file loaded are 1..MaxDataLen
MaxDataLen == 6
\* the window (config display.window_width and window_height, 800 x 480 by
\* default), in pixels
WINDOW_WIDTH == 4
WINDOW_HEIGHT == 3
\* calls of render() made in one behaviour
MaxFrames == 1
\* ticks of the frame loop made in one behaviour
MaxTicks == 2
\* calls of render() made in one behaviour that switches modes
MaxModeFrames == 3
\* frames of a block given to the oscilloscope (longer than the window is wide)
WaveBlockLen == 6

\* ------------------------------------------------------------------------
\* Fixed point
\* ------------------------------------------------------------------------

\* the fixed-point representation of 1.0
ONE == 10 * 100
\* the fixed-point representation of 0.5
HALF == ONE \div 2

Max2(a, b) == IF a >= b THEN a ELSE b
Min2(a, b) == IF a <= b THEN a ELSE b
\* Python's max(a, b, c)
Max3(a, b, c) == Max2(Max2(a, b), c)
Abs(a) == IF a >= 0 THEN a ELSE -a

\* a * b for fixed-point a and b
FMul(a, b) == (a * b) \div ONE
\* a / b for fixed-point a and b, b # 0
FDiv(a, b) == (a * ONE) \div b

\* ------------------------------------------------------------------------
\* Arrays
\* ------------------------------------------------------------------------

None == <<>>
Some(x) == <<x>>
\* the value held by an optional that is not None
Val(o) == o[1]

\* a function of domain 1..n as the tuple of its values (the same value,
\* enumerated once)
AsTuple(f) == SubSeq(f, 1, Len(f))

\* numpy shape of a two-dimensional array: (channels, bins)
Shape(a) == <<Len(a), IF Len(a) = 0 THEN 0 ELSE Len(a[1])>>

\* number of elements of a two-dimensional array
Size(a) == Shape(a)[1] * Shape(a)[2]

\* the values held by a two-dimensional array
Elements(a) == UNION {{a[ch][i] : i \in 1..Len(a[ch])} : ch \in 1..Len(a)}

\* the largest member of a non-empty finite set of integers
SetMax(S) == CHOOSE m \in S : \A x \in S : x <= m

\* np.max(a) of a non-empty array
NpMax(a) == SetMax(Elements(a))

\* elementwise map of a two-dimensional array
MapArray(F(_), a) ==
    AsTuple([ch \in 1..Len(a) |-> AsTuple([i \in 1..Len(a[ch]) |-> F(a[ch][i])])])

\* a stereo array of n bins: the left channel alternates a, b, a, ... and the
\* right channel b, a, b, ...
MkSpectrum(n, a, b) ==
    << AsTuple([i \in 1..n |-> IF i % 2 = 1 THEN a ELSE b]),
       AsTuple([i \in 1..n |-> IF i % 2 = 1 THEN b ELSE a]) >>

\* input magnitudes (non-negative)
Levels == {k * HALF : k \in 0..MaxLevel}

VARIABLES
    \* PyGameRenderer
    running_max,          \* self.running_max
    scale_multiplier,     \* self.scale_multiplier: None or a fixed-point factor
    smoothed_spectrum,    \* self.smoothed_spectrum: None or an array
    particle_system,      \* self.particle_system: a ParticleSystem
    terrain_history_left, \* self.terrain_history_left: a deque of slices
    terrain_history_right,\* self.terrain_history_right
    terrain_log,          \* history variable: every <<left, right>> pair of slices
                          \* appended, oldest first
    mode,                 \* self.mode
    waveform_max,         \* self.waveform_max
    spectrogram_surf,     \* self.spectrogram_surf: WINDOW_HEIGHT rows (top first)
                          \* of WINDOW_WIDTH pixels, each <<r, g, b>>
    frame,                \* history variable: the number of calls of render()
    spectrogram_log,      \* history variable: the rows the spectrogram painted,
                          \* oldest first, the last WINDOW_HEIGHT of them
    \* FileAudioSource
    data,                 \* self.data: None or the frames of the file, each <<left, right>>
    cursor,               \* self.cursor
    loop,                 \* self.loop
    \* LiveAudioSource
    stream,               \* self.stream: None, or the state of the InputStream
    dtype,                \* self.dtype
    channels,             \* self.channels
    \* PyGameRenderer: the window's controls
    running,              \* self.running
    dropdown,             \* self.dropdown: its selected_idx and is_open
    scale_dropdown,       \* self.scale_dropdown
    \* main()
    pc,                   \* the statement main() is at
    m_data,               \* its local data
    m_magnitude,          \* its local magnitude
    m_phase,              \* its local phase
    stop_calls,           \* history variable: the number of calls of audio.stop()
    dispatched,           \* history variable: the events update() dispatched in
                          \* its last drain, in order
    steps,                \* history variable: the stages of the frame loop that
                          \* ran, in order
    \* the call just made, as its caller sees it
    printed,              \* the lines it printed
    op,                   \* name of the operation that ran last
    arg,                  \* its argument
    ret,                  \* its return value (None when it raised or returns nothing)
    raised,               \* the exception it raised, or "none"
    before                \* the state it found: the fields it may write, as they were

vars == <<running_max, scale_multiplier, smoothed_spectrum, particle_system,
          terrain_history_left, terrain_history_right, terrain_log,
          mode, waveform_max, spectrogram_surf, frame, spectrogram_log,
          data, cursor, loop, stream, dtype, channels,
          running, dropdown, scale_dropdown,
          pc, m_data, m_magnitude, m_phase, stop_calls, dispatched, steps,
          printed, op, arg, ret, raised, before>>

terrain == <<terrain_history_left, terrain_history_right, terrain_log>>
display == <<mode, waveform_max, spectrogram_surf, frame, spectrogram_log>>
renderer == <<running_max, scale_multiplier, smoothed_spectrum, particle_system, terrain,
              display>>
file_source == <<data, cursor, loop>>
live_source == <<stream, dtype, channels>>
sources == <<file_source, live_source>>
ui == <<running, dropdown, scale_dropdown>>
main_locals == <<pc, m_data, m_magnitude, m_phase, stop_calls, dispatched>>
main_loop == <<main_locals, steps>>

\* ------------------------------------------------------------------------
\* PyGameRenderer: adaptive normalization
\* ------------------------------------------------------------------------

\* self.running_max = 1.0
INITIAL_RUNNING_MAX == ONE
\* self.max_decay = 0.995, in thousandths
MAX_DECAY_MILLI == 995
\* the floor of the running maximum: the literal 1.0 in max(..., 1.0)
RUNNING_MAX_FLOOR == ONE

\* self.scale_values
scale_options == <<"Automatic", "0.5x", "1x", "2x", "5x", "10x">>
scale_values(option_name) ==
    CASE option_name = "Automatic" -> None
      [] option_name = "0.5x" -> Some(HALF)
      [] option_name = "1x" -> Some(ONE)
      [] option_name = "2x" -> Some(2 * ONE)
      [] option_name = "5x" -> Some(5 * ONE)
      [] option_name = "10x" -> Some(10 * ONE)

\* a plausible slip: the decay is never applied
DecayStalls(rm) == rm

\* a plausible slip: the running maximum is halved instead of decayed
DecayHalves(rm) == rm \div 2

\* self.running_max *= self.max_decay
Decay(rm) == (rm * MAX_DECAY_MILLI) \div 1000

\* a plausible slip: the decay branch forgets the floor
UpdateRunningMaxNoFloor(rm, current_max) ==
    IF current_max > rm
    THEN current_max
    ELSE Max2(Decay(rm), current_max \div 2)

\* a plausible slip: the attack moves half way to the frame maximum
UpdateRunningMaxSlowAttack(rm, current_max) ==
    IF current_max > rm
    THEN (rm + current_max) \div 2
    ELSE Max3(Decay(rm), current_max \div 2, RUNNING_MAX_FLOOR)

\* the update of running_max in automatic mode
UpdateRunningMax(rm, current_max) ==
    IF current_max > rm
    THEN current_max
    ELSE Max3(Decay(rm), current_max \div 2, RUNNING_MAX_FLOOR)

\* _normalize_spectrum: the exception it raises, "none" if it returns
NormalizeRaises(mult, spectrum) ==
    IF mult = None /\ Size(spectrum) = 0
    THEN "ValueError"     \* np.max of a zero-size array
    ELSE "none"

\* a plausible slip: the running maximum follows the input in manual mode too
NormalizeRunningMaxAlways(rm, mult, spectrum) ==
    IF Size(spectrum) = 0 THEN rm ELSE UpdateRunningMax(rm, NpMax(spectrum))

\* _normalize_spectrum: running_max after the call
NormalizeRunningMax(rm, mult, spectrum) ==
    IF mult # None \/ Size(spectrum) = 0
    THEN rm
    ELSE UpdateRunningMax(rm, NpMax(spectrum))

\* _normalize_spectrum: the array returned (when it does not raise)
NormalizeResult(rm, mult, spectrum) ==
    IF mult # None
    THEN LET Scaled(v) == FMul(v, Val(mult)) IN MapArray(Scaled, spectrum)
    ELSE LET rm2 == NormalizeRunningMax(rm, mult, spectrum)
             Normalized(v) == FDiv(v, rm2)
         IN IF rm2 > 0 THEN MapArray(Normalized, spectrum) ELSE spectrum

\* spectra given to _normalize_spectrum: stereo, no bin or MaxBins bins,
\* non-negative
NormalizeInputs ==
    {MkSpectrum(n, a, b) : n \in {0, MaxBins}, a \in Levels, b \in Levels}

\* a call of _normalize_spectrum(spectrum)
CallNormalize(spectrum) ==
    /\ op' = "_normalize_spectrum"
    /\ arg' = Some(spectrum)
    /\ before' = running_max
    /\ raised' = NormalizeRaises(scale_multiplier, spectrum)
    /\ running_max' = NormalizeRunningMax(running_max, scale_multiplier, spectrum)
    /\ ret' = IF raised' = "none"
              THEN Some(NormalizeResult(running_max, scale_multiplier, spectrum))
              ELSE None
    /\ printed' = <<>>
    /\ UNCHANGED <<scale_multiplier, smoothed_spectrum, particle_system, terrain, display, sources, ui>>

\* _on_scale_select(idx, option_name), the callback of the scale dropdown
OnScaleSelect(idx) ==
    /\ op' = "_on_scale_select"
    /\ arg' = Some(idx)
    /\ before' = None
    /\ ret' = None
    /\ raised' = "none"
    /\ scale_multiplier' = scale_values(scale_options[idx])
    /\ printed' = <<>>
    /\ UNCHANGED <<running_max, smoothed_spectrum, particle_system, terrain, display, sources, ui>>

\* ------------------------------------------------------------------------
\* PyGameRenderer: temporal smoothing
\* ------------------------------------------------------------------------

\* self.smoothing_factor = 0.7, in tenths
SMOOTHING_TENTHS == 7

\* a plausible slip: the two weights exchanged
BlendSwapped(previous, current) ==
    ((10 - SMOOTHING_TENTHS) * previous + SMOOTHING_TENTHS * current) \div 10

\* smoothing_factor * previous + (1 - smoothing_factor) * current, one bin
Blend(previous, current) ==
    (SMOOTHING_TENTHS * previous + (10 - SMOOTHING_TENTHS) * current) \div 10

\* the blend of two arrays of the same shape
BlendArray(previous, current) ==
    AsTuple([ch \in 1..Len(current) |->
        AsTuple([i \in 1..Len(current[ch]) |-> Blend(previous[ch][i], current[ch][i])])])

\* the test of _apply_smoothing: no state yet, or a state of another shape
SmoothingResets(sm, spectrum) ==
    IF sm = None THEN TRUE ELSE Shape(Val(sm)) # Shape(spectrum)

\* a plausible slip: every call resets the state to the raw input
SmoothedAfterNoBlend(sm, spectrum) == Some(spectrum)

\* _apply_smoothing: self.smoothed_spectrum after the call
SmoothedAfter(sm, spectrum) ==
    IF SmoothingResets(sm, spectrum)
    THEN Some(spectrum)                         \* spectrum.copy()
    ELSE Some(BlendArray(Val(sm), spectrum))

\* _apply_smoothing: the array returned
SmoothingResult(sm, spectrum) ==
    IF SmoothingResets(sm, spectrum)
    THEN spectrum
    ELSE Val(SmoothedAfter(sm, spectrum))

\* the fixed-point blend loses nothing: no bin is rounded
BlendIsExact(sm, spectrum) ==
    IF SmoothingResets(sm, spectrum)
    THEN TRUE
    ELSE \A ch \in 1..Len(spectrum) : \A i \in 1..Len(spectrum[ch]) :
            (SMOOTHING_TENTHS * Val(sm)[ch][i]
                + (10 - SMOOTHING_TENTHS) * spectrum[ch][i]) % 10 = 0

\* a call of _apply_smoothing(spectrum)
CallSmoothing(spectrum) ==
    /\ op' = "_apply_smoothing"
    /\ arg' = Some(spectrum)
    /\ before' = smoothed_spectrum
    /\ raised' = "none"
    /\ smoothed_spectrum' = SmoothedAfter(smoothed_spectrum, spectrum)
    /\ ret' = Some(SmoothingResult(smoothed_spectrum, spectrum))
    /\ printed' = <<>>
    /\ UNCHANGED <<running_max, scale_multiplier, particle_system, terrain, display, sources, ui>>

\* ------------------------------------------------------------------------
\* ParticleSystem
\* ------------------------------------------------------------------------

\* ParticleSystem.__init__(max_particles): every array zero, nothing active.
\* Ages and lifetimes count update steps; a velocity is a displacement per
\* step.
NewParticleSystem(max_particles) ==
    [ max_particles  |-> max_particles,
      positions      |-> [i \in 1..max_particles |-> <<0, 0>>],
      velocities     |-> [i \in 1..max_particles |-> <<0, 0>>],
      sizes          |-> [i \in 1..max_particles |-> 0],
      colors         |-> [i \in 1..max_particles |-> <<0, 0, 0>>],
      lifetimes      |-> [i \in 1..max_particles |-> 0],
      ages           |-> [i \in 1..max_particles |-> 0],
      active         |-> [i \in 1..max_particles |-> FALSE],
      particle_count |-> 0 ]

\* np.where(~self.active)[0]
InactiveIndices(ps) == {i \in 1..ps.max_particles : ~ps.active[i]}

\* the number of slots whose active flag is set
ActiveCount(ps) == Cardinality({i \in 1..ps.max_particles : ps.active[i]})

\* inactive_indices[0]: the lowest inactive index
FirstInactive(ps) ==
    CHOOSE i \in InactiveIndices(ps) : \A j \in InactiveIndices(ps) : i <= j

\* a plausible slip: a full pool overwrites its first slot
SpawnOverwritesWhenFull(ps, p) ==
    LET idx == IF InactiveIndices(ps) = {} THEN 1 ELSE FirstInactive(ps)
    IN  [ps EXCEPT
            !.positions[idx] = <<p.x, p.y>>,
            !.velocities[idx] = <<p.vx, p.vy>>,
            !.sizes[idx] = p.size,
            !.colors[idx] = p.color,
            !.lifetimes[idx] = p.lifetime,
            !.ages[idx] = 0,
            !.active[idx] = TRUE,
            !.particle_count = @ + 1]

\* ParticleSystem.spawn(x, y, vx, vy, size, color, lifetime); p holds the
\* arguments
Spawn(ps, p) ==
    IF InactiveIndices(ps) = {}
    THEN ps                                     \* no room: return
    ELSE LET idx == FirstInactive(ps)
         IN  [ps EXCEPT
                !.positions[idx] = <<p.x, p.y>>,
                !.velocities[idx] = <<p.vx, p.vy>>,
                !.sizes[idx] = p.size,
                !.colors[idx] = p.color,
                !.lifetimes[idx] = p.lifetime,
                !.ages[idx] = 0,
                !.active[idx] = TRUE,
                !.particle_count = @ + 1]

\* v * 0.98, rounded toward zero
Drag(v) == IF v >= 0 THEN (v * 98) \div 100 ELSE -(((-v) * 98) \div 100)

\* a plausible slip: the counter is not decremented for the particles that die
UpdateKeepsCount(ps, dt) ==
    IF ps.particle_count = 0
    THEN ps
    ELSE LET active_mask == ps.active
             ages == [i \in 1..ps.max_particles |->
                        IF active_mask[i] THEN ps.ages[i] + dt ELSE ps.ages[i]]
             newly_dead == {i \in 1..ps.max_particles :
                               active_mask[i] /\ ages[i] >= ps.lifetimes[i]}
         IN  [ps EXCEPT
                !.ages = ages,
                !.active = [i \in 1..ps.max_particles |->
                              active_mask[i] /\ i \notin newly_dead]]

\* a plausible slip: a particle dies only once its age exceeds its lifetime
UpdateDiesLate(ps, dt) ==
    IF ps.particle_count = 0
    THEN ps
    ELSE LET active_mask == ps.active
             positions == [i \in 1..ps.max_particles |->
                 IF active_mask[i]
                 THEN << ps.positions[i][1] + ps.velocities[i][1] * dt,
                         ps.positions[i][2] + ps.velocities[i][2] * dt >>
                 ELSE ps.positions[i]]
             velocities == [i \in 1..ps.max_particles |->
                 IF active_mask[i]
                 THEN <<Drag(ps.velocities[i][1]), Drag(ps.velocities[i][2])>>
                 ELSE ps.velocities[i]]
             ages == [i \in 1..ps.max_particles |->
                        IF active_mask[i] THEN ps.ages[i] + dt ELSE ps.ages[i]]
             newly_dead == {i \in 1..ps.max_particles :
                               active_mask[i] /\ ages[i] > ps.lifetimes[i]}
         IN  [ps EXCEPT
                !.positions = positions,
                !.velocities = velocities,
                !.ages = ages,
                !.active = [i \in 1..ps.max_particles |->
                              active_mask[i] /\ i \notin newly_dead],
                !.particle_count = @ - Cardinality(newly_dead)]

\* a plausible slip: the old particles are killed before the ages are
\* advanced
UpdateKillsBeforeAging(ps, dt) ==
    IF ps.particle_count = 0
    THEN ps
    ELSE LET active_mask == ps.active
             positions == [i \in 1..ps.max_particles |->
                 IF active_mask[i]
                 THEN << ps.positions[i][1] + ps.velocities[i][1] * dt,
                         ps.positions[i][2] + ps.velocities[i][2] * dt >>
                 ELSE ps.positions[i]]
             velocities == [i \in 1..ps.max_particles |->
                 IF active_mask[i]
                 THEN <<Drag(ps.velocities[i][1]), Drag(ps.velocities[i][2])>>
                 ELSE ps.velocities[i]]
             ages == [i \in 1..ps.max_particles |->
                        IF active_mask[i] THEN ps.ages[i] + dt ELSE ps.ages[i]]
             newly_dead == {i \in 1..ps.max_particles :
                               active_mask[i] /\ ps.ages[i] >= ps.lifetimes[i]}
         IN  [ps EXCEPT
                !.positions = positions,
                !.velocities = velocities,
                !.ages = ages,
                !.active = [i \in 1..ps.max_particles |->
                              active_mask[i] /\ i \notin newly_dead],
                !.particle_count = @ - Cardinality(newly_dead)]

\* ParticleSystem.update(dt)
Update(ps, dt) ==
    IF ps.particle_count = 0
    THEN ps
    ELSE LET active_mask == ps.active
             positions == [i \in 1..ps.max_particles |->
                 IF active_mask[i]
                 THEN << ps.positions[i][1] + ps.velocities[i][1] * dt,
                         ps.positions[i][2] + ps.velocities[i][2] * dt >>
                 ELSE ps.positions[i]]
             velocities == [i \in 1..ps.max_particles |->
                 IF active_mask[i]
                 THEN <<Drag(ps.velocities[i][1]), Drag(ps.velocities[i][2])>>
                 ELSE ps.velocities[i]]
             ages == [i \in 1..ps.max_particles |->
                        IF active_mask[i] THEN ps.ages[i] + dt ELSE ps.ages[i]]
             \* dead_mask = self.ages >= self.lifetimes
             newly_dead == {i \in 1..ps.max_particles :
                               active_mask[i] /\ ages[i] >= ps.lifetimes[i]}
         IN  [ps EXCEPT
                !.positions = positions,
                !.velocities = velocities,
                !.ages = ages,
                !.active = [i \in 1..ps.max_particles |->
                              active_mask[i] /\ i \notin newly_dead],
                !.particle_count = @ - Cardinality(newly_dead)]

\* arguments given to spawn: two kinds of particle (a large slow cyan one, a
\* small fast magenta one) from the centre, any lifetime up to MaxLifetime
SpawnInputs ==
    { [x |-> 400, y |-> 240, vx |-> k.vx, vy |-> k.vy, size |-> k.size,
       color |-> k.color, lifetime |-> lifetime] :
        k \in { [vx |-> 50, vy |-> 0, size |-> 8, color |-> <<0, 255, 255>>],
                [vx |-> -101, vy |-> 200, size |-> 2, color |-> <<255, 0, 255>>] },
        lifetime \in 0..MaxLifetime }

\* a call of particle_system.spawn(...)
CallSpawn(p) ==
    /\ op' = "spawn"
    /\ arg' = Some(p)
    /\ before' = particle_system.particle_count
    /\ raised' = "none"
    /\ ret' = None
    /\ particle_system' = Spawn(particle_system, p)
    /\ printed' = <<>>
    /\ UNCHANGED <<running_max, scale_multiplier, smoothed_spectrum, terrain, display, sources, ui>>

\* a call of particle_system.update(dt)
CallUpdate(dt) ==
    /\ op' = "update"
    /\ arg' = Some(dt)
    /\ before' = particle_system.particle_count
    /\ raised' = "none"
    /\ ret' = None
    /\ particle_system' = Update(particle_system, dt)
    /\ printed' = <<>>
    /\ UNCHANGED <<running_max, scale_multiplier, smoothed_spectrum, terrain, display, sources, ui>>

\* ------------------------------------------------------------------------
\* PyGameRenderer: spectral terrain
\* ------------------------------------------------------------------------

\* self.terrain_num_bins = 60
TERRAIN_NUM_BINS == 60

\* a[:n], the first n elements of a (all of a when it has fewer)
Prefix(a, n) == SubSeq(a, 1, Min2(Len(a), n))

\* a plausible slip: a full deque drops the incoming slice
DequeAppendDropsNew(d, x, maxlen) ==
    IF Len(d) >= maxlen THEN d ELSE Append(d, x)

\* deque(maxlen=maxlen).append(x): a full deque discards its oldest element
DequeAppend(d, x, maxlen) ==
    IF Len(d) >= maxlen THEN Append(Tail(d), x) ELSE Append(d, x)

\* left_data, right_data of _render_spectral_terrain
TerrainSlice(spectrum, ch) == Prefix(spectrum[ch], TERRAIN_NUM_BINS)

\* _render_spectral_terrain: the exception it raises, given the left history
\* as the call leaves it.  With two or more slices stored the wireframe
\* loops read terrain_data[z_idx][x_idx] for every x_idx < terrain_num_bins,
\* outside any try: slices of unequal length make np.array(...) fail, and
\* a slice shorter than terrain_num_bins is indexed past its end.
TerrainRaises(spectrum, history_after) ==
    IF Len(spectrum) < 2
    THEN "IndexError"                           \* spectrum[1]
    ELSE IF Len(history_after) < 2
    THEN "none"
    ELSE IF \E z \in 1..Len(history_after) :
                Len(history_after[z]) # Len(history_after[1])
    THEN "ValueError"
    ELSE IF Len(history_after[1]) < TERRAIN_NUM_BINS
    THEN "IndexError"
    ELSE "none"

\* a call of _render_spectral_terrain(spectrum)
CallRenderSpectralTerrain(spectrum) ==
    /\ op' = "_render_spectral_terrain"
    /\ arg' = Some(spectrum)
    /\ before' = Len(terrain_history_left)
    /\ ret' = None
    /\ IF Len(spectrum) < 2
       THEN UNCHANGED terrain
       ELSE /\ terrain_history_left' =
                 DequeAppend(terrain_history_left, TerrainSlice(spectrum, 1),
                             TERRAIN_HISTORY_DEPTH)
            /\ terrain_history_right' =
                 DequeAppend(terrain_history_right, TerrainSlice(spectrum, 2),
                             TERRAIN_HISTORY_DEPTH)
            /\ terrain_log' =
                 Append(terrain_log,
                        <<TerrainSlice(spectrum, 1), TerrainSlice(spectrum, 2)>>)
    /\ raised' = TerrainRaises(spectrum, terrain_history_left')
    /\ printed' = <<>>
    /\ UNCHANGED <<running_max, scale_multiplier, smoothed_spectrum, particle_system, display, sources, ui>>

\* ------------------------------------------------------------------------
\* PyGameRenderer: spectrogram
\* ------------------------------------------------------------------------

\* the fractional bits of log2(m / 2^14), k of them, for 2^14 <= m < 2^15,
\* by repeated squaring
RECURSIVE Log2Frac(_, _)
Log2Frac(m, k) ==
    IF k = 0
    THEN 0
    ELSE LET sq == (m * m) \div 2^14
         IN  IF sq >= 2^15
             THEN 2^(k - 1) + Log2Frac(sq \div 2, k - 1)
             ELSE Log2Frac(sq, k - 1)

\* the largest e with 2^e <= v, for v >= 1
RECURSIVE Log2Floor(_)
Log2Floor(v) == IF v < 2 THEN 0 ELSE 1 + Log2Floor(v \div 2)

\* 1000 * log10(v) for an integer 1 <= v < 2^17, from log2(v) to ten
\* fractional bits
Log10Milli(v) ==
    LET e == Log2Floor(v)
        log2q == e * 2^10 + Log2Frac((v * 2^14) \div 2^e, 10)
    IN  (log2q * 30103) \div (2^10 * 100)

\* np.clip((np.log10(v + 1e-6) + 3) / 4 * 255, 0, 255).astype(int) of a
\* non-negative magnitude v: the index into the colormap.  A magnitude below
\* the fixed-point resolution is 0, whose logarithm is log10(1e-6) = -6.
ColorIndex(v) ==
    IF v <= 0
    THEN 0
    ELSE LET scaled == ((Log10Milli(v) - Log10Milli(ONE) + 3000) * 255) \div 4000
         IN  Max2(0, Min2(255, scaled))

\* _generate_colormap_cyan()[i]: an array of uint8, so that a component
\* beyond 255 wraps
colormap_left(i) ==
    IF i < 85 THEN <<0, (i * 3) % 256, (i * 3) % 256>>
    ELSE IF i < 170 THEN <<0, (85 * 3 + (i - 85) * 2) % 256, 255>>
    ELSE <<((i - 170) * 3) % 256, 255, 255>>

\* _generate_colormap_magenta()[i]
colormap_right(i) ==
    IF i < 85 THEN <<(i * 3) % 256, 0, (i * 3) % 256>>
    ELSE IF i < 170 THEN <<255, 0, (85 * 3 + (i - 85) * 2) % 256>>
    ELSE <<255, ((i - 170) * 3) % 256, 255>>

\* the colour of the separator line
SEPARATOR_COLOR == <<50, 50, 50>>

\* self.spectrogram_surf after fill((0, 0, 0))
BlankSurface == [y \in 1..WINDOW_HEIGHT |-> [x \in 1..WINDOW_WIDTH |-> <<0, 0, 0>>]]

\* a plausible slip: the bins are sampled up to len(data), one past the end
ResampleIndexPastEnd(n, half_width, j) ==
    IF half_width = 1 THEN 0 ELSE (j * n) \div (half_width - 1)

\* np.linspace(0, n - 1, half_width).astype(int)[j], j from 0, for n >= 1
ResampleIndex(n, half_width, j) ==
    IF half_width = 1 THEN 0 ELSE (j * (n - 1)) \div (half_width - 1)

\* indices: the bins sampled for a row of half_width pixels out of limit bins
SampledBins(limit, half_width) ==
    [x \in 1..half_width |-> ResampleIndex(limit, half_width, x - 1)]

\* row_data after the clip: the index into the colormap of every pixel of
\* the row of one channel
ColorIndices(spectrum, ch, half_width) ==
    LET limit == Shape(spectrum)[2] \div 2
        bins == SampledBins(limit, half_width)
    IN  [x \in 1..half_width |-> ColorIndex(spectrum[ch][bins[x] + 1])]

\* the colours of the bottom row of one channel (ch = 1 left, 2 right)
SpectrogramRow(spectrum, ch) ==
    LET half_width == WINDOW_WIDTH \div 2
        limit == Shape(spectrum)[2] \div 2
        row_data == Prefix(spectrum[ch], limit)
    IN  [x \in 1..half_width |->
            LET idx == ColorIndex(row_data[ResampleIndex(limit, half_width, x - 1) + 1])
            IN  IF ch = 1 THEN colormap_left(idx) ELSE colormap_right(idx)]

\* a plausible slip: the image is not scrolled before the new row is painted
ScrollNothing(surf) == surf

\* Surface.scroll(0, -1): every row moves up by one; the bottom row keeps
\* its pixels
Scroll(surf) ==
    [y \in 1..WINDOW_HEIGHT |-> IF y < WINDOW_HEIGHT THEN surf[y + 1] ELSE surf[y]]

\* _render_spectrogram: the exception it raises.  data[indices] raises when
\* an index is not within data: every index is when the spectrum has fewer
\* than two bins, for data is empty then.
SpectrogramRaises(spectrum) ==
    LET half_width == WINDOW_WIDTH \div 2
        limit == Shape(spectrum)[2] \div 2
    IN  IF \E x \in 1..half_width : SampledBins(limit, half_width)[x] \notin 0..(limit - 1)
        THEN "IndexError"
        ELSE "none"

\* _render_spectrogram: self.spectrogram_surf after the call.  The scroll
\* comes first and stays when the call raises; the separator is drawn after
\* the left half and before the right half.
SpectrogramAfter(surf, spectrum) ==
    LET half_width == WINDOW_WIDTH \div 2
        scrolled == Scroll(surf)
    IN  IF SpectrogramRaises(spectrum) # "none"
        THEN scrolled
        ELSE LET left == SpectrogramRow(spectrum, 1)
                 right == SpectrogramRow(spectrum, 2)
             IN  [y \in 1..WINDOW_HEIGHT |-> [x \in 1..WINDOW_WIDTH |->
                    IF y = WINDOW_HEIGHT /\ x <= half_width THEN left[x]
                    ELSE IF y = WINDOW_HEIGHT /\ x <= 2 * half_width THEN right[x - half_width]
                    ELSE IF x = half_width + 1 THEN SEPARATOR_COLOR
                    ELSE scrolled[y][x]]]

\* the row one call paints: the colours of the left channel, then those of
\* the right channel
PaintedRow(spectrum) ==
    AsTuple(SpectrogramRow(spectrum, 1)) \o AsTuple(SpectrogramRow(spectrum, 2))

\* the rows painted so far, the last WINDOW_HEIGHT of them; a call that
\* raises paints none
SpectrogramLogAfter(log, spectrum) ==
    IF SpectrogramRaises(spectrum) # "none"
    THEN log
    ELSE LET all == Append(log, PaintedRow(spectrum))
         IN  SubSeq(all, Max2(1, Len(all) - WINDOW_HEIGHT + 1), Len(all))

\* a call of _render_spectrogram(spectrum)
CallRenderSpectrogram(spectrum) ==
    /\ op' = "_render_spectrogram"
    /\ arg' = Some(spectrum)
    /\ before' = None
    /\ raised' = SpectrogramRaises(spectrum)
    /\ spectrogram_surf' = SpectrogramAfter(spectrogram_surf, spectrum)
    /\ spectrogram_log' = SpectrogramLogAfter(spectrogram_log, spectrum)
    /\ ret' = None
    /\ printed' = <<>>
    /\ UNCHANGED <<running_max, scale_multiplier, smoothed_spectrum, particle_system, terrain,
                   mode, waveform_max, frame, sources, ui>>

\* ------------------------------------------------------------------------
\* PyGameRenderer: oscilloscope
\* ------------------------------------------------------------------------

\* self.waveform_max = 0.1
WAVEFORM_MAX_INITIAL == ONE \div 10
\* the floor of the waveform maximum: the literal 0.01
WAVEFORM_MAX_FLOOR == ONE \div 100

\* a plausible slip: the crossing is searched over the whole block
TriggerIdxWholeBlock(audio_chunk) ==
    LET crossings == {i \in 0..(Len(audio_chunk) - 2) :
                         audio_chunk[i + 1][1] < 0 /\ audio_chunk[i + 2][1] > 0}
    IN  IF crossings = {} THEN 0
        ELSE CHOOSE i \in crossings : \A j \in crossings : i <= j

\* trigger_idx: the first rising zero crossing of the left channel within
\* the first half of the block, 0 when there is none (indices from 0)
\* a plausible slip: the loop has no break, so the last crossing wins
TriggerIdxLastCrossing(audio_chunk) ==
    LET crossings == {i \in 0..(Len(audio_chunk) \div 2 - 1) :
                         audio_chunk[i + 1][1] < 0 /\ audio_chunk[i + 2][1] > 0}
    IN  IF crossings = {} THEN 0
        ELSE CHOOSE i \in crossings : \A j \in crossings : i >= j

TriggerIdx(audio_chunk) ==
    LET crossings == {i \in 0..(Len(audio_chunk) \div 2 - 1) :
                         audio_chunk[i + 1][1] < 0 /\ audio_chunk[i + 2][1] > 0}
    IN  IF crossings = {} THEN 0
        ELSE CHOOSE i \in crossings : \A j \in crossings : i <= j

\* draw_len
DrawLen(audio_chunk) == Min2(Len(audio_chunk) - TriggerIdx(audio_chunk), WINDOW_WIDTH)

\* np.max(np.abs(audio_chunk[trigger_idx : trigger_idx + draw_len, :])) of a
\* segment that is not empty
CurrentAmpMax(audio_chunk) ==
    LET t == TriggerIdx(audio_chunk)
    IN  SetMax({Abs(audio_chunk[i][ch]) :
                   i \in (t + 1)..(t + DrawLen(audio_chunk)), ch \in 1..2})

\* _render_waveform: the exception it raises
WaveformRaises(mult, audio_chunk) ==
    IF mult = None /\ DrawLen(audio_chunk) = 0
    THEN "ValueError"     \* np.max of a zero-size array
    ELSE "none"

\* a plausible slip: the decay of the waveform maximum forgets the floor
WaveformMaxAfterNoFloor(wm, mult, audio_chunk) ==
    IF mult # None \/ DrawLen(audio_chunk) = 0
    THEN wm
    ELSE LET current_amp_max == CurrentAmpMax(audio_chunk)
         IN  IF current_amp_max > wm
             THEN current_amp_max
             ELSE Max2(Decay(wm), current_amp_max \div 2)

\* _render_waveform: self.waveform_max after the call
WaveformMaxAfter(wm, mult, audio_chunk) ==
    IF mult # None \/ DrawLen(audio_chunk) = 0
    THEN wm
    ELSE LET current_amp_max == CurrentAmpMax(audio_chunk)
         IN  IF current_amp_max > wm
             THEN current_amp_max
             ELSE Max3(Decay(wm), current_amp_max \div 2, WAVEFORM_MAX_FLOOR)

\* data = audio_chunk[trigger_idx : trigger_idx + draw_len, ch]: the slice
\* ends where the block ends
WaveformData(audio_chunk, ch) ==
    LET t == TriggerIdx(audio_chunk)
        seg == SubSeq(audio_chunk, t + 1, Min2(t + DrawLen(audio_chunk), Len(audio_chunk)))
    IN  [i \in 1..Len(seg) |-> seg[i][ch]]

\* the polyline pygame.draw.lines is given for each channel: for every
\* sample of data, the pixel column int(np.linspace(0, WINDOW_WIDTH, len(data)))
\* and the sample its row is computed from; no polyline for fewer than two
\* points
WaveformLines(audio_chunk) ==
    [ch \in 1..2 |->
        LET samples == WaveformData(audio_chunk, ch)
            n == Len(samples)
        IN  IF n > 1
            THEN [k \in 1..n |-> <<(WINDOW_WIDTH * (k - 1)) \div (n - 1), samples[k]>>]
            ELSE <<>>]

\* a call of _render_waveform(audio_chunk); what it returns here is what it
\* drew
CallRenderWaveform(audio_chunk) ==
    /\ op' = "_render_waveform"
    /\ arg' = Some(audio_chunk)
    /\ before' = waveform_max
    /\ raised' = WaveformRaises(scale_multiplier, audio_chunk)
    /\ waveform_max' = WaveformMaxAfter(waveform_max, scale_multiplier, audio_chunk)
    /\ ret' = IF raised' = "none" THEN Some(WaveformLines(audio_chunk)) ELSE None
    /\ printed' = <<>>
    /\ UNCHANGED <<running_max, scale_multiplier, smoothed_spectrum, particle_system, terrain,
                   mode, spectrogram_surf, frame, spectrogram_log, sources, ui>>

\* ------------------------------------------------------------------------
\* PyGameRenderer: particle field
\* ------------------------------------------------------------------------

\* the sum of a[lo..hi]
RECURSIVE SumRange(_, _, _)
SumRange(a, lo, hi) ==
    IF lo > hi THEN 0
    ELSE IF lo = hi THEN a[lo]
    ELSE LET half == (lo + hi) \div 2
         IN  SumRange(a, lo, half) + SumRange(a, half + 1, hi)

\* np.mean(a[from_:to]): None stands for the nan numpy yields for an empty
\* slice
MeanSlice(a, from_, to) ==
    LET hi == Min2(to, Len(a))
    IN  IF from_ >= hi
        THEN None
        ELSE Some(SumRange(a, from_ + 1, hi) \div (hi - from_))

\* np.mean(spectrum, axis=0)
AvgSpectrum(spectrum) ==
    AsTuple([i \in 1..Shape(spectrum)[2] |-> (spectrum[1][i] + spectrum[2][i]) \div 2])

\* _analyze_frequency_bands
AnalyzeFrequencyBands(spectrum) ==
    LET avg_spectrum == AvgSpectrum(spectrum)
    IN  [ low_energy  |-> MeanSlice(avg_spectrum, 0, 21),
          mid_energy  |-> MeanSlice(avg_spectrum, 21, 101),
          high_energy |-> MeanSlice(avg_spectrum, 101, 257) ]

\* int(np.clip(base + energy * gain, 0, 255))
Brightness(base, energy, gain) == Max2(0, Min2(255, base + (energy * gain) \div ONE))

\* The arguments of one spawn.  Of the random draws the model keeps two per
\* kind of particle: draw 0 takes the angle 0, the low end of every range
\* and the cyan channel; draw 1 the angle pi, the high end and the magenta
\* channel; a spark comes from the centre on draw 0 and from the left edge
\* on draw 1.  Positions are in 1/60 pixel, so that a velocity in pixels per
\* second is the displacement of one update step; sizes are fixed-point
\* pixels; lifetimes are update steps.
SpawnArgs(kind, energy, draw) ==
    LET center_x == (WINDOW_WIDTH \div 2) * 60
        center_y == (WINDOW_HEIGHT \div 2) * 60
        sign == IF draw = 0 THEN 1 ELSE -1
    IN  CASE kind = "bass" ->
               [ x |-> center_x, y |-> center_y,
                 vx |-> sign * (((IF draw = 0 THEN 20 ELSE 60) * (ONE + energy)) \div ONE),
                 vy |-> 0,
                 size |-> FMul((IF draw = 0 THEN 4 ELSE 10) * ONE, ONE + energy \div 2),
                 color |-> IF draw = 0
                           THEN <<0, Brightness(150, energy, 105), Brightness(180, energy, 75)>>
                           ELSE <<Brightness(180, energy, 75), 0, Brightness(150, energy, 105)>>,
                 lifetime |-> IF draw = 0 THEN 120 ELSE 240 ]
          [] kind = "mid" ->
               [ x |-> center_x + sign * (-50) * 60, y |-> center_y + sign * (-50) * 60,
                 vx |-> sign * (IF draw = 0 THEN 40 ELSE 100),
                 vy |-> 0,
                 size |-> (IF draw = 0 THEN 2 ELSE 5) * ONE,
                 color |-> IF draw = 0
                           THEN <<0, Brightness(200, energy, 55), Brightness(220, energy, 35)>>
                           ELSE <<Brightness(220, energy, 35), 0, Brightness(200, energy, 55)>>,
                 lifetime |-> IF draw = 0 THEN 60 ELSE 120 ]
          [] kind = "spark" ->
               [ x |-> IF draw = 0 THEN center_x ELSE 0,
                 y |-> IF draw = 0 THEN center_y ELSE 0,
                 vx |-> sign * (((IF draw = 0 THEN 150 ELSE 300) * (ONE + energy)) \div ONE),
                 vy |-> 0,
                 size |-> (IF draw = 0 THEN 1 ELSE 3) * ONE,
                 color |-> IF draw = 0
                           THEN <<Brightness(200, energy, 55) \div 2, 255, 255>>
                           ELSE <<255, Brightness(200, energy, 55) \div 2, 255>>,
                 lifetime |-> IF draw = 0 THEN 12 ELSE 30 ]

\* for _ in range(count): self.particle_system.spawn(...).  A spawn on a
\* full pool changes nothing, so the loop is cut there; draws[idx] is the
\* draw of the spawn that fills slot idx.
RECURSIVE SpawnLoop(_, _, _, _, _)
SpawnLoop(ps, count, kind, energy, draws) ==
    IF count <= 0 \/ InactiveIndices(ps) = {}
    THEN ps
    ELSE SpawnLoop(Spawn(ps, SpawnArgs(kind, energy, draws[FirstInactive(ps)])),
                   count - 1, kind, energy, draws)

\* velocities[active_mask] += noise, with noise = turbulence_strength times
\* <<noise_sign, -noise_sign>> for every particle
Turbulence(ps, mid_energy, noise_sign) ==
    LET turbulence_strength == (mid_energy * 50) \div ONE
    IN  [ps EXCEPT !.velocities =
            [i \in 1..ps.max_particles |->
                IF ps.active[i]
                THEN << ps.velocities[i][1] + noise_sign * turbulence_strength,
                        ps.velocities[i][2] - noise_sign * turbulence_strength >>
                ELSE ps.velocities[i]]]

\* the random draws of one call of _render_particle_field
ParticleDraws ==
    [draws : [1..MaxParticles -> {0, 1}], noise_sign : {-1, 1}]

\* _render_particle_field: the exception it raises and the pool it leaves.
\* An energy that is nan makes int(...) raise ValueError, and makes
\* np.random.uniform raise OverflowError when there are particles to
\* perturb.
ParticleField(ps, spectrum, rnd) ==
    LET bands == AnalyzeFrequencyBands(spectrum)
        low == bands.low_energy
        mid == bands.mid_energy
        high == bands.high_energy
    IN  IF low = None
        THEN [raised |-> "ValueError", ps |-> ps]
        ELSE
        LET ps1 == SpawnLoop(ps, (Val(low) * 15) \div ONE, "bass", Val(low), rnd.draws)
        IN  IF mid = None
            THEN [raised |-> IF ps1.particle_count > 0 THEN "OverflowError" ELSE "ValueError",
                  ps |-> ps1]
            ELSE
            LET ps2 == IF ps1.particle_count > 0
                       THEN Turbulence(ps1, Val(mid), rnd.noise_sign)
                       ELSE ps1
                ps3 == SpawnLoop(ps2, (Val(mid) * 8) \div ONE, "mid", Val(mid), rnd.draws)
            IN  IF high = None
                THEN [raised |-> "ValueError", ps |-> ps3]
                ELSE
                LET ps4 == SpawnLoop(ps3, (Val(high) * 20) \div ONE, "spark", Val(high),
                                     rnd.draws)
                IN  [raised |-> "none", ps |-> Update(ps4, 1)]

\* ------------------------------------------------------------------------
\* PyGameRenderer: render
\* ------------------------------------------------------------------------

\* self.mode_map, by position in dropdown_options
modes == <<"bars", "line", "spectrogram", "wave", "radial", "radial_curves",
           "phase_clock", "particles", "terrain">>

\* _render_bars: the exception it raises.  WINDOW_WIDTH // (num_bins // 4)
\* divides by zero when the spectrum has fewer than four bins.
BarsRaises(spectrum) ==
    IF Shape(spectrum)[2] \div 4 = 0 THEN "ZeroDivisionError" ELSE "none"

\* _render_phase_clock: the exception it raises.  mag_data[indices] indexes
\* an empty array when the spectrum has fewer than four bins, and
\* phase_data[indices] reads past the end of a phase array that is shorter.
PhaseClockRaises(spectrum, phase) ==
    LET limit == Min2(Shape(spectrum)[2] \div 4, 80 * 2)
    IN  IF limit = 0 \/ Shape(phase)[2] < limit THEN "IndexError" ELSE "none"

\* the state of the visualizations: what render may write
viz == <<running_max, smoothed_spectrum, spectrogram_surf, waveform_max,
         particle_system, terrain_history_left, terrain_history_right>>

\* the method render dispatches to in each mode
RenderMethod(m) ==
    CASE m = "bars" -> "_render_bars"
      [] m = "line" -> "_render_line"
      [] m = "spectrogram" -> "_render_spectrogram"
      [] m = "wave" -> "_render_waveform"
      [] m = "radial" -> "_render_radial"
      [] m = "radial_curves" -> "_render_radial_curves"
      [] m = "phase_clock" -> "_render_phase_clock"
      [] m = "particles" -> "_render_particle_field"
      [] m = "terrain" -> "_render_spectral_terrain"

\* a plausible slip: the mode's method is called on the raw spectrum, before
\* normalization and smoothing
RenderStagesDispatchFirst(m, spectrum, audio_chunk, phase) ==
    IF spectrum = None THEN <<>>
    ELSE IF Len(Val(spectrum)) = 0 THEN <<>>
    ELSE <<RenderMethod(m), "_normalize_spectrum", "_apply_smoothing">>

\* the methods one call of render calls, in the order of its statements:
\* none when it returns early, the normalizer alone when that raises, and
\* no mode method in wave mode without a block or phase_clock mode without
\* a phase array
RenderStages(m, spectrum, audio_chunk, phase) ==
    IF spectrum = None THEN <<>>
    ELSE IF Len(Val(spectrum)) = 0 THEN <<>>
    ELSE IF NormalizeRaises(scale_multiplier, Val(spectrum)) # "none"
    THEN <<"_normalize_spectrum">>
    ELSE <<"_normalize_spectrum", "_apply_smoothing">>
         \o (IF (m = "wave" /\ audio_chunk = None) \/ (m = "phase_clock" /\ phase = None)
             THEN <<>> ELSE <<RenderMethod(m)>>)

\* render(spectrum, audio_chunk, phase): each argument is None or Some(array),
\* a spectrum or a phase array has no channel or two, rnd holds the random
\* draws of the particle field
Render(spectrum, audio_chunk, phase, rnd) ==
    /\ op' = "render"
    /\ steps' = steps \o RenderStages(mode, spectrum, audio_chunk, phase)
    /\ arg' = Some(spectrum)
    /\ before' = viz
    /\ ret' = None
    /\ printed' = <<>>
    /\ frame' = frame + 1
    /\ UNCHANGED <<scale_multiplier, mode, sources, ui>>
    /\ IF spectrum = None
       THEN /\ raised' = "none"                 \* return
            /\ UNCHANGED viz
            /\ UNCHANGED <<terrain_log, spectrogram_log>>
       ELSE IF Len(Val(spectrum)) = 0
       THEN /\ raised' = "none"                 \* return
            /\ UNCHANGED viz
            /\ UNCHANGED <<terrain_log, spectrogram_log>>
       ELSE IF NormalizeRaises(scale_multiplier, Val(spectrum)) # "none"
       THEN /\ raised' = NormalizeRaises(scale_multiplier, Val(spectrum))
            /\ UNCHANGED viz
            /\ UNCHANGED <<terrain_log, spectrogram_log>>
       ELSE
       LET normalized == NormalizeResult(running_max, scale_multiplier, Val(spectrum))
           shown == SmoothingResult(smoothed_spectrum, normalized)
       IN  /\ running_max' = NormalizeRunningMax(running_max, scale_multiplier, Val(spectrum))
           /\ smoothed_spectrum' = SmoothedAfter(smoothed_spectrum, normalized)
           /\ IF mode = "spectrogram"
              THEN /\ spectrogram_surf' = SpectrogramAfter(spectrogram_surf, shown)
                   /\ spectrogram_log' = SpectrogramLogAfter(spectrogram_log, shown)
              ELSE UNCHANGED <<spectrogram_surf, spectrogram_log>>
           /\ IF mode = "wave" /\ audio_chunk # None
              THEN waveform_max' =
                      WaveformMaxAfter(waveform_max, scale_multiplier, Val(audio_chunk))
              ELSE UNCHANGED waveform_max
           /\ IF mode = "particles"
              THEN particle_system' = ParticleField(particle_system, shown, rnd).ps
              ELSE UNCHANGED particle_system
           /\ IF mode = "terrain"
              THEN /\ terrain_history_left' =
                        DequeAppend(terrain_history_left, TerrainSlice(shown, 1),
                                    TERRAIN_HISTORY_DEPTH)
                   /\ terrain_history_right' =
                        DequeAppend(terrain_history_right, TerrainSlice(shown, 2),
                                    TERRAIN_HISTORY_DEPTH)
                   /\ terrain_log' =
                        Append(terrain_log,
                               <<TerrainSlice(shown, 1), TerrainSlice(shown, 2)>>)
              ELSE UNCHANGED terrain
           /\ raised' =
                CASE mode = "bars" -> BarsRaises(shown)
                  [] mode = "spectrogram" -> SpectrogramRaises(shown)
                  [] mode = "wave" ->
                        IF audio_chunk = None THEN "none"
                        ELSE WaveformRaises(scale_multiplier, Val(audio_chunk))
                  [] mode = "phase_clock" ->
                        IF phase = None THEN "none"
                        ELSE PhaseClockRaises(shown, Val(phase))
                  [] mode = "particles" -> ParticleField(particle_system, shown, rnd).raised
                  [] mode = "terrain" -> TerrainRaises(shown, terrain_history_left')
                  [] OTHER -> "none"            \* line, radial, radial_curves

\* a plausible slip: selecting a mode clears the spectrogram image
OnModeSelectClears(idx) ==
    /\ op' = "_on_mode_select"
    /\ arg' = Some(idx)
    /\ before' = None
    /\ ret' = None
    /\ raised' = "none"
    /\ mode' = modes[idx]
    /\ printed' = <<>>
    /\ spectrogram_surf' = BlankSurface
    /\ UNCHANGED <<running_max, smoothed_spectrum, waveform_max, particle_system,
                   terrain, scale_multiplier, frame, spectrogram_log, sources, ui>>

\* _on_mode_select(idx, option_name), the callback of the mode dropdown
OnModeSelect(idx) ==
    /\ op' = "_on_mode_select"
    /\ arg' = Some(idx)
    /\ before' = None
    /\ ret' = None
    /\ raised' = "none"
    /\ mode' = modes[idx]
    /\ printed' = <<>>
    /\ UNCHANGED <<viz, terrain_log, scale_multiplier, frame, spectrogram_log, sources, ui>>

\* ------------------------------------------------------------------------
\* Dropdown and PyGameRenderer.update
\* ------------------------------------------------------------------------

\* the option names of the mode dropdown, and the mode each one selects
dropdown_options == <<"Spectrum Bars", "Spectrum Curves", "Spectrogram", "Oscilloscope",
                      "Radial Spectrum", "Radial Curves", "Phase Clock", "Particle Field",
                      "Spectral Terrain">>
mode_map(option_name) ==
    CASE option_name = "Spectrum Bars" -> "bars"
      [] option_name = "Spectrum Curves" -> "line"
      [] option_name = "Spectrogram" -> "spectrogram"
      [] option_name = "Oscilloscope" -> "wave"
      [] option_name = "Radial Spectrum" -> "radial"
      [] option_name = "Radial Curves" -> "radial_curves"
      [] option_name = "Phase Clock" -> "phase_clock"
      [] option_name = "Particle Field" -> "particles"
      [] option_name = "Spectral Terrain" -> "terrain"

\* a plausible slip: the scale dropdown is placed where the mode dropdown is
scale_dropdown_rect_misplaced ==
    [x |-> WINDOW_WIDTH - 200 - 10, y |-> 10, width |-> 150, height |-> 40]

\* the rectangles of the two dropdown buttons: the mode dropdown at the top
\* right of the window, the scale dropdown at the top left
dropdown_rect == [x |-> WINDOW_WIDTH - 200 - 10, y |-> 10, width |-> 200, height |-> 40]
scale_dropdown_rect == [x |-> 10, y |-> 10, width |-> 150, height |-> 40]

\* pygame.Rect.collidepoint: the left and top edges are inside, the right and
\* bottom edges are not
CollidePoint(rect, pos) ==
    /\ rect.x <= pos[1] /\ pos[1] < rect.x + rect.width
    /\ rect.y <= pos[2] /\ pos[2] < rect.y + rect.height

\* the rectangle of option row i (from 0) of an open dropdown
OptRect(rect, i) ==
    [x |-> rect.x, y |-> (rect.y + rect.height) + i * rect.height,
     width |-> rect.width, height |-> rect.height]

\* Dropdown(...): the fields handle_event writes
NewDropdown(selected_idx) == [selected_idx |-> selected_idx, is_open |-> FALSE]

\* the events pygame delivers, by the fields update and handle_event read
QuitEvent == [type |-> "QUIT", key |-> "", button |-> 0, pos |-> <<0, 0>>]
KeyDown(key) == [type |-> "KEYDOWN", key |-> key, button |-> 0, pos |-> <<0, 0>>]
MouseButtonDown(button, pos) ==
    [type |-> "MOUSEBUTTONDOWN", key |-> "", button |-> button, pos |-> pos]

\* a plausible slip: a click on an option row closes the list and selects
\* nothing
HandleEventIgnoresRows(dd, rect, options, event) ==
    IF event.type = "MOUSEBUTTONDOWN" /\ event.button = 1
    THEN IF dd.is_open
         THEN [dd |-> [dd EXCEPT !.is_open = FALSE], selected |-> None,
               ret |-> CollidePoint(rect, event.pos)]
         ELSE IF CollidePoint(rect, event.pos)
         THEN [dd |-> [dd EXCEPT !.is_open = TRUE], selected |-> None, ret |-> TRUE]
         ELSE [dd |-> dd, selected |-> None, ret |-> FALSE]
    ELSE [dd |-> dd, selected |-> None, ret |-> FALSE]

\* a plausible slip: a click outside an open dropdown leaves it open
HandleEventStaysOpen(dd, rect, options, event) ==
    IF event.type = "MOUSEBUTTONDOWN" /\ event.button = 1
    THEN IF dd.is_open
         THEN LET hits == {i \in 0..(Len(options) - 1) :
                              CollidePoint(OptRect(rect, i), event.pos)}
              IN  IF hits # {}
                  THEN LET i == CHOOSE h \in hits : \A g \in hits : h <= g
                       IN  [dd |-> [selected_idx |-> i, is_open |-> FALSE],
                            selected |-> Some(i), ret |-> TRUE]
                  ELSE IF CollidePoint(rect, event.pos)
                  THEN [dd |-> [dd EXCEPT !.is_open = ~dd.is_open], selected |-> None,
                        ret |-> TRUE]
                  ELSE [dd |-> dd, selected |-> None, ret |-> FALSE]
         ELSE IF CollidePoint(rect, event.pos)
         THEN [dd |-> [dd EXCEPT !.is_open = TRUE], selected |-> None, ret |-> TRUE]
         ELSE [dd |-> dd, selected |-> None, ret |-> FALSE]
    ELSE [dd |-> dd, selected |-> None, ret |-> FALSE]

\* Dropdown.handle_event(event): the dropdown after it, the index it passed
\* to the callback (None when it did not call it) and its return value
HandleEvent(dd, rect, options, event) ==
    IF event.type = "MOUSEBUTTONDOWN" /\ event.button = 1
    THEN IF dd.is_open
         THEN LET hits == {i \in 0..(Len(options) - 1) :
                              CollidePoint(OptRect(rect, i), event.pos)}
              IN  IF hits # {}
                  THEN LET i == CHOOSE h \in hits : \A g \in hits : h <= g
                       IN  [dd |-> [selected_idx |-> i, is_open |-> FALSE],
                            selected |-> Some(i), ret |-> TRUE]
                  ELSE IF CollidePoint(rect, event.pos)
                  THEN [dd |-> [dd EXCEPT !.is_open = ~dd.is_open], selected |-> None,
                        ret |-> TRUE]
                  ELSE [dd |-> [dd EXCEPT !.is_open = FALSE], selected |-> None,
                        ret |-> FALSE]
         ELSE IF CollidePoint(rect, event.pos)
         THEN [dd |-> [dd EXCEPT !.is_open = TRUE], selected |-> None, ret |-> TRUE]
         ELSE [dd |-> dd, selected |-> None, ret |-> FALSE]
    ELSE [dd |-> dd, selected |-> None, ret |-> FALSE]

\* modes.index(self.mode), from 0
ModeIndex(m) == (CHOOSE i \in 1..Len(modes) : modes[i] = m) - 1

\* a plausible slip: the space key steps back through the modes
NextModeBackwards(m) == modes[((ModeIndex(m) + Len(modes) - 1) % Len(modes)) + 1]

\* the mode the space key moves to: modes[(current_idx + 1) % len(modes)]
NextMode(m) == modes[((ModeIndex(m) + 1) % Len(modes)) + 1]

\* the fields of the renderer that update writes
UiState == [running |-> running, mode |-> mode, scale_multiplier |-> scale_multiplier,
            dropdown |-> dropdown, scale_dropdown |-> scale_dropdown]

\* a plausible slip: the space key changes the mode and leaves the dropdown
\* as it was
DispatchEventSpaceKeepsIndex(s, event) ==
    LET s1 == IF event.type = "QUIT" THEN [s EXCEPT !.running = FALSE] ELSE s
        h1 == HandleEvent(s1.dropdown, dropdown_rect, dropdown_options, event)
        s2 == [s1 EXCEPT !.dropdown = h1.dd,
                         !.mode = IF h1.selected = None THEN @
                                  ELSE mode_map(dropdown_options[Val(h1.selected) + 1])]
        h2 == HandleEvent(s2.scale_dropdown, scale_dropdown_rect, scale_options, event)
        s3 == [s2 EXCEPT !.scale_dropdown = h2.dd,
                         !.scale_multiplier =
                             IF h2.selected = None THEN @
                             ELSE scale_values(scale_options[Val(h2.selected) + 1])]
    IN  IF event.type = "KEYDOWN" /\ event.key = "K_SPACE"
        THEN [s3 EXCEPT !.mode = NextMode(s3.mode)]
        ELSE s3

\* the body of update's loop for one event: the quit test, the two
\* handle_event calls with their callbacks, the space key
DispatchEvent(s, event) ==
    LET s1 == IF event.type = "QUIT" THEN [s EXCEPT !.running = FALSE] ELSE s
        h1 == HandleEvent(s1.dropdown, dropdown_rect, dropdown_options, event)
        s2 == [s1 EXCEPT !.dropdown = h1.dd,
                         !.mode = IF h1.selected = None THEN @
                                  ELSE mode_map(dropdown_options[Val(h1.selected) + 1])]
        h2 == HandleEvent(s2.scale_dropdown, scale_dropdown_rect, scale_options, event)
        s3 == [s2 EXCEPT !.scale_dropdown = h2.dd,
                         !.scale_multiplier =
                             IF h2.selected = None THEN @
                             ELSE scale_values(scale_options[Val(h2.selected) + 1])]
    IN  IF event.type = "KEYDOWN" /\ event.key = "K_SPACE"
        THEN [s3 EXCEPT !.mode = NextMode(s3.mode),
                        !.dropdown = [@ EXCEPT !.selected_idx = ModeIndex(NextMode(s3.mode))]]
        ELSE s3

\* a plausible slip: the loop over the events stops at the quit event
RECURSIVE DrainBreaksOnQuit(_, _)
DrainBreaksOnQuit(acc, events) ==
    IF events = <<>> THEN acc
    ELSE IF Head(events).type = "QUIT"
    THEN [s |-> DispatchEvent(acc.s, Head(events)),
          dispatched |-> Append(acc.dispatched, Head(events))]
    ELSE DrainBreaksOnQuit([s |-> DispatchEvent(acc.s, Head(events)),
                            dispatched |-> Append(acc.dispatched, Head(events))],
                           Tail(events))

\* for event in pygame.event.get(): the state after the events are
\* dispatched in order, and the events dispatched
RECURSIVE Drain(_, _)
Drain(acc, events) ==
    IF events = <<>> THEN acc
    ELSE Drain([s |-> DispatchEvent(acc.s, Head(events)),
                dispatched |-> Append(acc.dispatched, Head(events))],
               Tail(events))

\* update(), with events the queue pygame.event.get() returns: the drain,
\* then clock.tick(FPS)
UpdateRenderer(events) ==
    LET out == Drain([s |-> UiState, dispatched |-> <<>>], events)
    IN  /\ op' = "update"
        /\ arg' = Some(events)
        /\ before' = Some(UiState)
        /\ ret' = None
        /\ raised' = "none"
        /\ printed' = <<>>
        /\ running' = out.s.running
        /\ mode' = out.s.mode
        /\ scale_multiplier' = out.s.scale_multiplier
        /\ dropdown' = out.s.dropdown
        /\ scale_dropdown' = out.s.scale_dropdown
        /\ dispatched' = out.dispatched
        /\ steps' = steps \o <<"pygame.event.get", "clock.tick">>
        /\ UNCHANGED <<viz, terrain_log, frame, spectrogram_log, sources>>

\* ------------------------------------------------------------------------
\* Audio sources
\* ------------------------------------------------------------------------

\* np.zeros((n, c)): n frames of c zero samples
Zeros(n, c) == [i \in 1..n |-> [k \in 1..c |-> 0]]

\* Python's a[lo:hi] for 0 <= lo, 0 <= hi: the elements with 0-based index
\* in [lo, hi), as many as a has
Slice(a, lo, hi) == SubSeq(a, lo + 1, Min2(hi, Len(a)))

\* the looping branch of read_chunk: the rest of the file, then its start
Wrap(d, cur) ==
    LET chunk == Slice(d, cur, Len(d))
        remaining == CHUNK_SIZE - Len(chunk)
    IN  chunk \o Slice(d, 0, remaining)

\* the padding branch of read_chunk: the rest of the file, then zeros
Pad(d, cur) ==
    LET chunk == Slice(d, cur, Len(d))
    IN  chunk \o Zeros(CHUNK_SIZE - Len(chunk), 2)

\* FileAudioSource.read_chunk: the block returned
FileChunk(d, cur, lp) ==
    IF d = None
    THEN Zeros(CHUNK_SIZE, 2)
    ELSE IF cur + CHUNK_SIZE > Len(Val(d))
    THEN IF lp THEN Wrap(Val(d), cur) ELSE Pad(Val(d), cur)
    ELSE Slice(Val(d), cur, cur + CHUNK_SIZE)

\* a plausible slip: the looping branch rewinds the cursor to the start
FileCursorAfterRewinds(d, cur, lp) ==
    IF d = None
    THEN cur
    ELSE IF cur + CHUNK_SIZE > Len(Val(d))
    THEN IF lp THEN 0 ELSE Len(Val(d))
    ELSE cur + CHUNK_SIZE

\* FileAudioSource.read_chunk: self.cursor after the call
FileCursorAfter(d, cur, lp) ==
    IF d = None
    THEN cur
    ELSE IF cur + CHUNK_SIZE > Len(Val(d))
    THEN IF lp
         THEN CHUNK_SIZE - Len(Slice(Val(d), cur, Len(Val(d))))   \* remaining
         ELSE Len(Val(d))
    ELSE cur + CHUNK_SIZE

\* FileAudioSource.start()
FileStart ==
    /\ op' = "FileAudioSource.start"
    /\ arg' = None
    /\ before' = cursor
    /\ ret' = None
    /\ raised' = "none"
    /\ printed' = <<>>
    /\ cursor' = 0
    /\ UNCHANGED <<data, loop, live_source, renderer, ui>>

\* FileAudioSource.stop()
FileStop ==
    /\ op' = "FileAudioSource.stop"
    /\ arg' = None
    /\ before' = cursor
    /\ ret' = None
    /\ raised' = "none"
    /\ printed' = <<>>
    /\ UNCHANGED <<file_source, live_source, renderer, ui>>

\* FileAudioSource.read_chunk()
FileReadChunk ==
    /\ op' = "FileAudioSource.read_chunk"
    /\ arg' = None
    /\ before' = cursor
    /\ ret' = Some(FileChunk(data, cursor, loop))
    /\ raised' = "none"
    /\ printed' = <<>>
    /\ cursor' = FileCursorAfter(data, cursor, loop)
    /\ UNCHANGED <<data, loop, live_source, renderer, ui>>

\* the frames of a loaded file of n frames: frame i holds the samples i, -i
FileData(n) == [i \in 1..n |-> <<i, -i>>]

\* FileAudioSource(file_path, loop) on a file of 1..MaxDataLen frames
InitFileSource ==
    /\ \E n \in 1..MaxDataLen : data = Some(FileData(n))
    /\ cursor = 0
    /\ loop \in BOOLEAN

\* what the InputStream does in one call of the source
\* (sd.InputStream / stream.start / stream.read), chosen by the device
DeviceOpens == {"started", "start fails", "open fails"}
DeviceSamples == {-1024 * 1024, 0, 1024 * 1024}
DeviceBlocks ==
    {[i \in 1..CHUNK_SIZE |-> [k \in 1..channels |-> IF k = 1 THEN a ELSE b]] :
        a \in DeviceSamples, b \in DeviceSamples}
DeviceReads ==
    {[outcome |-> o, block |-> b] : o \in {"ok", "overflowed"}, b \in DeviceBlocks}
    \cup {[outcome |-> "raises", block |-> <<>>]}

\* data.astype(np.float32) / 2147483648.0 of one raw 32-bit sample, in fixed
\* point (the division is made in two steps to stay within 32-bit integers)
Int32ToFloat(raw) == ((raw \div 1024) * ONE) \div (2097152)

\* the block read_chunk returns from what stream.read gave
LiveChunk(blk, dt) ==
    IF dt = "int32"
    THEN [i \in 1..Len(blk) |-> [k \in 1..Len(blk[i]) |-> Int32ToFloat(blk[i][k])]]
    ELSE blk

\* LiveAudioSource.start(): the float32 stream, else the int32 stream, is
\* opened and started; a failure is printed and raised again
LiveStart(dev, fmt) ==
    /\ op' = "LiveAudioSource.start"
    /\ arg' = Some(<<dev, fmt>>)
    /\ before' = stream
    /\ ret' = None
    /\ channels' = channels
    /\ IF dev = "open fails"
       THEN /\ raised' = "PortAudioError"
            /\ printed' = <<"Error starting audio stream">>
            /\ UNCHANGED <<stream, dtype>>
       ELSE /\ dtype' = fmt
            /\ IF dev = "start fails"
               THEN /\ stream' = Some("stopped")
                    /\ raised' = "PortAudioError"
                    /\ printed' = <<"Error starting audio stream">>
               ELSE /\ stream' = Some("active")
                    /\ raised' = "none"
                    /\ printed' = <<"Live audio stream started successfully!">>
    /\ UNCHANGED <<file_source, renderer, ui>>

\* LiveAudioSource.stop()
LiveStop ==
    /\ op' = "LiveAudioSource.stop"
    /\ arg' = None
    /\ before' = stream
    /\ ret' = None
    /\ raised' = "none"
    /\ stream' = None
    /\ printed' = IF stream # None THEN <<"Audio stream stopped.">> ELSE <<>>
    /\ UNCHANGED <<dtype, channels, file_source, renderer, ui>>

\* a plausible slip: the read is made outside the try
LiveReadOutcomeUncaught(st, dev) ==
    IF st = None
    THEN [raised |-> "none", zero |-> TRUE, printed |-> <<>>]
    ELSE IF dev.outcome = "raises" \/ st = Some("stopped")
    THEN [raised |-> "PortAudioError", zero |-> TRUE, printed |-> <<>>]
    ELSE [raised |-> "none", zero |-> FALSE,
          printed |-> IF dev.outcome = "overflowed"
                      THEN <<"Warning: Audio buffer overflow detected!">>
                      ELSE <<>>]

\* LiveAudioSource.read_chunk: what it raises, whether it returns the
\* zero-filled block, what it prints.  A stream that was opened but not
\* started cannot be read: stream.read raises.
LiveReadOutcome(st, dev) ==
    IF st = None
    THEN [raised |-> "none", zero |-> TRUE, printed |-> <<>>]
    ELSE IF dev.outcome = "raises" \/ st = Some("stopped")
    THEN [raised |-> "none", zero |-> TRUE, printed |-> <<"Error reading audio">>]
    ELSE [raised |-> "none", zero |-> FALSE,
          printed |-> IF dev.outcome = "overflowed"
                      THEN <<"Warning: Audio buffer overflow detected!">>
                      ELSE <<>>]

\* LiveAudioSource.read_chunk()
LiveReadChunk(dev) ==
    LET out == LiveReadOutcome(stream, dev)
    IN  /\ op' = "LiveAudioSource.read_chunk"
        /\ arg' = Some(dev)
        /\ before' = stream
        /\ raised' = out.raised
        /\ printed' = out.printed
        /\ ret' = IF out.raised # "none" THEN None
                  ELSE IF out.zero THEN Some(Zeros(CHUNK_SIZE, channels))
                  ELSE Some(LiveChunk(dev.block, dtype))
        /\ UNCHANGED <<live_source, file_source, renderer, ui>>

\* LiveAudioSource(device, channels)
InitLiveSource ==
    /\ stream = None
    /\ dtype = "float32"
    /\ channels \in {1, 2}

\* the renderer after __init__
InitRenderer ==
    /\ running_max = INITIAL_RUNNING_MAX
    /\ scale_multiplier = None
    /\ smoothed_spectrum = None
    /\ particle_system = NewParticleSystem(MaxParticles)
    /\ terrain_history_left = <<>>
    /\ terrain_history_right = <<>>
    /\ terrain_log = <<>>
    /\ mode = "bars"
    /\ waveform_max = WAVEFORM_MAX_INITIAL
    /\ spectrogram_surf = BlankSurface
    /\ spectrogram_log = <<>>
    /\ frame = 0
    /\ running = TRUE
    /\ dropdown = NewDropdown(0)
    /\ scale_dropdown = NewDropdown(0)

\* main() before its first statement
InitMain ==
    /\ pc = "start"
    /\ m_data = None
    /\ m_magnitude = None
    /\ m_phase = None
    /\ stop_calls = 0
    /\ dispatched = <<>>
    /\ steps = <<>>

InitCall ==
    /\ op = "__init__"
    /\ arg = None
    /\ ret = None
    /\ raised = "none"
    /\ before = None
    /\ printed = <<>>

\* main() as it is started by default: the file source, on the silent
\* buffer _load_file makes when it finds no file; a live source not started
InitSources ==
    /\ data = Some(Zeros(MaxDataLen, 2))
    /\ cursor = 0
    /\ loop = TRUE
    /\ stream = None
    /\ dtype = "float32"
    /\ channels = 2

Init == InitRenderer /\ InitSources /\ InitCall /\ InitMain

NormalizeStep ==
    \E spectrum \in NormalizeInputs : CallNormalize(spectrum) /\ UNCHANGED main_loop
ScaleSelectStep ==
    \E idx \in 1..Len(scale_options) : OnScaleSelect(idx) /\ UNCHANGED main_loop

NextNorm == NormalizeStep \/ ScaleSelectStep

\* the normalizer driven by arbitrary calls
SpecNorm == Init /\ [][NextNorm]_vars

SpawnStep == \E p \in SpawnInputs : CallSpawn(p) /\ UNCHANGED main_loop
\* dt = 1/60 s is one step, the dt render passes
UpdateStep == CallUpdate(1) /\ UNCHANGED main_loop

NextParticles == SpawnStep \/ UpdateStep

\* the particle pool driven by arbitrary calls
SpecParticles == Init /\ [][NextParticles]_vars

\* a file source driven by arbitrary calls
InitFile ==
    /\ InitRenderer /\ InitCall /\ InitMain /\ InitFileSource
    /\ stream = None /\ dtype = "float32" /\ channels = 2

FileStartStep == FileStart /\ UNCHANGED main_loop
FileReadStep == FileReadChunk /\ UNCHANGED main_loop
FileStopStep == FileStop /\ UNCHANGED main_loop

NextFile == FileStartStep \/ FileReadStep \/ FileStopStep

SpecFile == InitFile /\ [][NextFile]_vars

\* a file source whose reads since the last start() are counted: steps holds
\* one entry for each of them, up to MaxReads
MaxReads == 6

CountedStartStep ==
    /\ FileStart
    /\ steps' = <<>>
    /\ UNCHANGED main_locals

CountedReadStep ==
    /\ Len(steps) < MaxReads
    /\ FileReadChunk
    /\ steps' = Append(steps, "read_chunk")
    /\ UNCHANGED main_locals

NextFileCounted == CountedStartStep \/ CountedReadStep

SpecFileCounted == InitFile /\ [][NextFileCounted]_vars

\* a live source driven by arbitrary calls, on a device that behaves in any way
InitLive ==
    /\ InitRenderer /\ InitCall /\ InitMain /\ InitLiveSource
    /\ data = None /\ cursor = 0 /\ loop = TRUE

LiveStartStep ==
    \E dev \in DeviceOpens : \E fmt \in {"float32", "int32"} :
        LiveStart(dev, fmt) /\ UNCHANGED main_loop
LiveReadStep == \E dev \in DeviceReads : LiveReadChunk(dev) /\ UNCHANGED main_loop
LiveStopStep == LiveStop /\ UNCHANGED main_loop

NextLive == LiveStartStep \/ LiveReadStep \/ LiveStopStep

SpecLive == InitLive /\ [][NextLive]_vars

\* the analysis window and the bins of the spectrum it yields
FFT_SIZE == 2048
SpectrumBins == FFT_SIZE \div 2 + 1

\* spectra given to _render_spectral_terrain: full-size stereo spectra whose
\* channels differ, and an undersized one
TerrainInputs ==
    {MkSpectrum(SpectrumBins, a, b) : a \in {0, ONE}, b \in {HALF}}
    \cup {MkSpectrum(SpectrumBins, HALF, ONE), MkSpectrum(3, ONE, 0)}

TerrainStep ==
    \E spectrum \in TerrainInputs :
        /\ Len(terrain_log) < TERRAIN_HISTORY_DEPTH + TerrainExtra
        /\ CallRenderSpectralTerrain(spectrum)
        /\ UNCHANGED main_loop

NextTerrain == TerrainStep

\* the terrain renderer driven by arbitrary calls
SpecTerrain == Init /\ [][NextTerrain]_vars

\* spectra given to _apply_smoothing: stereo, 1 or MaxBins bins, on a grid of
\* 10^SmoothDepth
RECURSIVE Pow10(_)
Pow10(k) == IF k = 0 THEN 1 ELSE 10 * Pow10(k - 1)
SmoothLevels == {k * Pow10(SmoothDepth) : k \in {0, 1, 3}}
SmoothingInputs ==
    {MkSpectrum(n, a, b) : n \in {1, MaxBins}, a \in SmoothLevels, b \in SmoothLevels}

\* calls of _apply_smoothing whose arithmetic the fixed point represents exactly
SmoothingStep ==
    \E spectrum \in SmoothingInputs :
        /\ BlendIsExact(smoothed_spectrum, spectrum)
        /\ CallSmoothing(spectrum)
        /\ UNCHANGED main_loop

NextSmooth == SmoothingStep

\* the smoother driven by arbitrary calls
SpecSmooth == Init /\ [][NextSmooth]_vars

\* spectra given to render: None, an array without channels, and stereo
\* arrays of no bin, of 3 bins, of 59 bins (undersized for one mode or more)
\* and of full size, loud or silent
RenderSpectra ==
    {None, Some(<<>>), Some(MkSpectrum(0, 0, 0)),
     Some(MkSpectrum(3, ONE, HALF)), Some(MkSpectrum(59, 2 * ONE, HALF)),
     Some(MkSpectrum(SpectrumBins, 2 * ONE, HALF)), Some(MkSpectrum(SpectrumBins, 0, 0))}

\* blocks given to render: None, silence, and a block whose left channel
\* rises through zero
RenderChunks ==
    {None, Some(Zeros(CHUNK_SIZE, 2)),
     Some([i \in 1..CHUNK_SIZE |-> IF i = 1 THEN <<-HALF, HALF>> ELSE <<ONE, -ONE>>])}

\* the phase array that goes with a spectrum: same shape
PhaseOf(spectrum) ==
    IF spectrum = None THEN None
    ELSE IF Len(Val(spectrum)) = 0 THEN spectrum
    ELSE Some(MkSpectrum(Shape(Val(spectrum))[2], 0, 0))

\* render reads audio_chunk in wave mode only, phase in phase_clock mode
\* only and makes random draws in particles mode only: the other modes are
\* given one value of each
RenderStep ==
    /\ frame < MaxFrames
    /\ \E spectrum \in RenderSpectra :
       \E audio_chunk \in (IF mode = "wave" THEN RenderChunks
                           ELSE {Some(Zeros(CHUNK_SIZE, 2))}) :
       \E phase \in (IF mode = "phase_clock" THEN {None, PhaseOf(spectrum)}
                     ELSE {PhaseOf(spectrum)}) :
       \E rnd \in (IF mode = "particles" THEN ParticleDraws
                   ELSE {[draws |-> [i \in 1..MaxParticles |-> 0], noise_sign |-> 1]}) :
          Render(spectrum, audio_chunk, phase, rnd) /\ UNCHANGED main_locals

ModeSelectStep == \E idx \in 1..Len(modes) : OnModeSelect(idx) /\ UNCHANGED main_loop

\* the scales selected while rendering: Automatic and 2x
RenderScaleSelectStep == \E idx \in {1, 4} : OnScaleSelect(idx) /\ UNCHANGED main_loop

NextRender == RenderStep \/ ModeSelectStep \/ RenderScaleSelectStep

\* the renderer driven by arbitrary frames and selections
SpecRender == Init /\ [][NextRender]_vars

\* blocks of WaveBlockLen frames given to _render_waveform: silence, a
\* steady level, and a block whose left channel rises through zero at index
\* 1 and whose last frame, which is not drawn, is the loudest
LevelBlock(a) == [i \in 1..WaveBlockLen |-> <<a, -a>>]
CrossingBlock(a) ==
    [i \in 1..WaveBlockLen |->
        IF i = 2 THEN <<-a, 0>>
        ELSE IF i = 3 THEN <<a, 0>>
        ELSE IF i = WaveBlockLen THEN <<2 * ONE, -2 * ONE>>
        ELSE <<0, 0>>]
WaveChunks == {LevelBlock(0), LevelBlock(ONE \div 5), CrossingBlock(WAVEFORM_MAX_FLOOR + 2)}

WaveStep ==
    \E audio_chunk \in WaveChunks : CallRenderWaveform(audio_chunk) /\ UNCHANGED main_loop

\* spectra given to _normalize_spectrum between the waveforms: silence, and
\* a frame just above the floor of the running maximum
WaveNormalizeStep ==
    \E spectrum \in {MkSpectrum(MaxBins, 0, 0), MkSpectrum(MaxBins, ONE + 5, 0)} :
        CallNormalize(spectrum) /\ UNCHANGED main_loop

NextWave == WaveStep \/ WaveNormalizeStep \/ RenderScaleSelectStep

\* the oscilloscope and the normalizer driven by arbitrary calls
SpecWave == Init /\ [][NextWave]_vars

\* every block of WaveBlockLen frames whose left samples are negative, zero
\* or positive, over a right channel that is silent or loud
WaveBlocks ==
    {[i \in 1..WaveBlockLen |-> <<left[i], right>>] :
        left \in [1..WaveBlockLen -> {-HALF, 0, ONE}], right \in {0, -2 * ONE}}

\* one call of _render_waveform in a behaviour, on any block
ScopeStep ==
    /\ steps = <<>>
    /\ \E audio_chunk \in WaveBlocks : CallRenderWaveform(audio_chunk)
    /\ steps' = <<"_render_waveform">>
    /\ UNCHANGED main_locals

NextScope == ScopeStep \/ RenderScaleSelectStep

\* the oscilloscope given any block, with or without a manual scale
SpecScope == Init /\ [][NextScope]_vars

\* spectra of full size given to _render_spectrogram: silence, magnitudes
\* around 1.0, and a spectrum that spans the colour range from 0.001 to 50.0
SpectrogramInputs ==
    {MkSpectrum(SpectrumBins, 0, 0), MkSpectrum(SpectrumBins, ONE, HALF),
     MkSpectrum(SpectrumBins, HALF, 0), MkSpectrum(SpectrumBins, 50 * ONE, 1),
     MkSpectrum(SpectrumBins, ONE \div 10, 2 * ONE), MkSpectrum(SpectrumBins, 5, 10 * ONE)}

SpectrogramStep ==
    \E spectrum \in SpectrogramInputs : CallRenderSpectrogram(spectrum) /\ UNCHANGED main_loop

NextSpectrogram == SpectrogramStep

\* the spectrogram driven by arbitrary calls
SpecSpectrogram == Init /\ [][NextSpectrogram]_vars

\* render on what the frame loop gives it while the modes are switched: a
\* loud full-size spectrum, a block that is not silent
ModesRenderStep ==
    /\ frame < MaxModeFrames
    /\ \E spectrum \in {MkSpectrum(SpectrumBins, 2 * ONE, HALF)} :
           Render(Some(spectrum), Some(LevelBlock(ONE \div 5)), PhaseOf(Some(spectrum)),
                  [draws |-> [i \in 1..MaxParticles |-> 1], noise_sign |-> 1])
    /\ UNCHANGED main_locals

\* the modes selected between the frames: the four that keep a state of
\* their own, and bars and line for those that keep none
ModesSelectStep ==
    \E idx \in {i \in 1..Len(modes) :
                   modes[i] \in {"bars", "line", "spectrogram", "wave", "particles", "terrain"}} :
        OnModeSelect(idx) /\ UNCHANGED main_loop

NextModes == ModesRenderStep \/ ModesSelectStep

\* the renderer over several frames, the mode selected at will between them
SpecModes == Init /\ [][NextModes]_vars

\* the particle pool with the calls left unrecorded (only the name of the
\* method is kept): spawn of a fast particle with any lifetime, update with
\* the step StepDt
StepDt == 1

LifecycleInputs == {p \in SpawnInputs : p.vy # 0}

LifecycleSpawnStep ==
    \E p \in LifecycleInputs :
        /\ op' = "spawn"
        /\ particle_system' = Spawn(particle_system, p)
        /\ UNCHANGED <<arg, ret, raised, before, printed, running_max, scale_multiplier,
                       smoothed_spectrum, terrain, display, sources, ui, main_loop>>

LifecycleUpdateStep ==
    /\ op' = "update"
    /\ particle_system' = Update(particle_system, StepDt)
    /\ UNCHANGED <<arg, ret, raised, before, printed, running_max, scale_multiplier,
                   smoothed_spectrum, terrain, display, sources, ui, main_loop>>

NextLifecycle == LifecycleSpawnStep \/ LifecycleUpdateStep

\* updates keep occurring: the renderer calls particle_system.update once
\* per frame in particles mode, so an update that would change the pool is
\* not postponed forever
SpecLifecycle == Init /\ [][NextLifecycle]_vars /\ WF_particle_system(LifecycleUpdateStep)

\* ------------------------------------------------------------------------
\* main: the frame loop
\* ------------------------------------------------------------------------

\* DSPPipeline.process(audio_chunk): <<magnitude, phase>>, both of shape
\* (2, FFT_SIZE // 2 + 1) whatever the length of the block.  The transform
\* of a silent block is zero; the transform itself is a library call, and
\* the model keeps one spectrum for every block that is not silent.
Process(audio_chunk) ==
    LET silent == \A i \in 1..Len(audio_chunk) : \A c \in 1..Len(audio_chunk[i]) :
                      audio_chunk[i][c] = 0
    IN  <<IF silent THEN MkSpectrum(SpectrumBins, 0, 0)
          ELSE MkSpectrum(SpectrumBins, 2 * ONE, HALF),
          MkSpectrum(SpectrumBins, 0, 0)>>

\* points of the window by what lies there: the button of a dropdown, its
\* option row i (from 0), and a point on no control
OnButton(rect) == <<rect.x + rect.width \div 2, rect.y + rect.height \div 2>>
OnRow(rect, i) == <<rect.x + rect.width \div 2, OptRect(rect, i).y + rect.height \div 2>>
OffControls == <<scale_dropdown_rect.x + scale_dropdown_rect.width,
                 scale_dropdown_rect.y + scale_dropdown_rect.height>>

\* k presses of the space key
SpacePresses(k) == [i \in 1..k |-> KeyDown("K_SPACE")]

\* the queues pygame.event.get() returns in the frame loop
EventQueues ==
    {<<>>,
     <<QuitEvent>>,
     <<QuitEvent, KeyDown("K_SPACE")>>,
     <<MouseButtonDown(1, OnButton(scale_dropdown_rect)), QuitEvent,
       MouseButtonDown(1, OnRow(scale_dropdown_rect, 3))>>,
     <<KeyDown("K_a")>>,
     <<MouseButtonDown(1, OnButton(dropdown_rect))>>,
     <<MouseButtonDown(1, OnRow(dropdown_rect, 7))>>,
     <<MouseButtonDown(3, OnRow(dropdown_rect, 2))>>,
     <<MouseButtonDown(1, OnButton(dropdown_rect)), MouseButtonDown(1, OnRow(dropdown_rect, 3))>>,
     <<MouseButtonDown(1, OnButton(scale_dropdown_rect))>>,
     <<MouseButtonDown(1, OnRow(scale_dropdown_rect, 3))>>,
     <<MouseButtonDown(1, OnRow(scale_dropdown_rect, 0))>>,
     <<MouseButtonDown(1, OffControls)>>}
    \cup {SpacePresses(k) : k \in 1..Len(modes)}

\* the normalizer in automatic mode, one call per tick, with the name of the
\* method, its argument and the running maximum it found kept: a frame of
\* any level, or silence
SilentSpectrum == MkSpectrum(MaxBins, 0, 0)

AutoFrame(spectrum) ==
    /\ scale_multiplier = None
    /\ op' = "_normalize_spectrum"
    /\ arg' = Some(spectrum)
    /\ before' = Some(running_max)
    /\ running_max' = NormalizeRunningMax(running_max, scale_multiplier, spectrum)
    /\ UNCHANGED <<ret, raised, printed, scale_multiplier, smoothed_spectrum,
                   particle_system, terrain, display, sources, ui, main_loop>>

AutoFrameStep == \E spectrum \in {s \in NormalizeInputs : Size(s) > 0} : AutoFrame(spectrum)

SilentFrameStep == AutoFrame(SilentSpectrum)

NextAuto == AutoFrameStep \/ SilentFrameStep

\* ticks keep occurring: the frame loop calls _normalize_spectrum once per
\* tick, so a silent frame that would lower running_max is not postponed
\* forever
SpecAuto == Init /\ [][NextAuto]_vars /\ WF_running_max(SilentFrameStep)

\* the events given to update() one at a time: left and right clicks on the
\* two buttons, on every option row of the two dropdowns and off the
\* controls, the space key, another key, the quit event
MaxUiEvents == 4

UiClickPositions ==
    {OnButton(dropdown_rect), OnButton(scale_dropdown_rect), OffControls}
    \cup {OnRow(dropdown_rect, i) : i \in 0..(Len(dropdown_options) - 1)}
    \cup {OnRow(scale_dropdown_rect, i) : i \in 0..(Len(scale_options) - 1)}

UiEvents ==
    {MouseButtonDown(1, pos) : pos \in UiClickPositions}
    \cup {MouseButtonDown(3, OnButton(dropdown_rect)),
          MouseButtonDown(3, OnRow(scale_dropdown_rect, 1)),
          KeyDown("K_SPACE"), KeyDown("K_a"), QuitEvent}

\* update() with one event in the queue
UiEventStep ==
    /\ Len(steps) < 2 * MaxUiEvents
    /\ \E event \in UiEvents : UpdateRenderer(<<event>>)
    /\ UNCHANGED <<pc, m_data, m_magnitude, m_phase, stop_calls>>

NextUi == UiEventStep

\* the renderer driven by events alone
SpecUi == Init /\ [][NextUi]_vars

\* audio.start()
MainStart ==
    /\ pc = "start"
    /\ FileStart
    /\ pc' = "while"
    /\ UNCHANGED <<m_data, m_magnitude, m_phase, stop_calls, dispatched, steps>>

\* while renderer.running: tested when a tick begins
MainWhile ==
    /\ pc = "while"
    /\ running => frame < MaxTicks
    /\ pc' = IF running THEN "read_chunk" ELSE "finally"
    /\ UNCHANGED <<renderer, ui, sources, m_data, m_magnitude, m_phase, stop_calls,
                   dispatched, steps, printed, op, arg, ret, raised, before>>

\* data = audio.read_chunk()
MainReadChunk ==
    /\ pc = "read_chunk"
    /\ FileReadChunk
    /\ m_data' = ret'
    /\ steps' = Append(steps, "read_chunk")
    /\ pc' = "process"
    /\ UNCHANGED <<m_magnitude, m_phase, stop_calls, dispatched>>

\* magnitude, phase = dsp.process(data)
MainProcess ==
    /\ pc = "process"
    /\ op' = "process"
    /\ arg' = m_data
    /\ before' = None
    /\ ret' = Some(Process(Val(m_data)))
    /\ raised' = "none"
    /\ printed' = <<>>
    /\ m_magnitude' = Some(Process(Val(m_data))[1])
    /\ m_phase' = Some(Process(Val(m_data))[2])
    /\ steps' = Append(steps, "process")
    /\ pc' = "render"
    /\ UNCHANGED <<renderer, ui, sources, m_data, stop_calls, dispatched>>

\* the random draws of the particle field given in the frame loop
MainDraws ==
    {rnd \in ParticleDraws : \A i \in 1..MaxParticles : rnd.draws[i] = rnd.draws[1]}

\* renderer.render(magnitude, data, phase); an exception it raises leaves
\* the loop through the finally clause
MainRender ==
    /\ pc = "render"
    /\ \E rnd \in (IF mode = "particles" THEN MainDraws
                    ELSE {[draws |-> [i \in 1..MaxParticles |-> 0], noise_sign |-> 1]}) :
           Render(m_magnitude, m_data, m_phase, rnd)
    /\ pc' = IF raised' = "none" THEN "update" ELSE "finally"
    /\ UNCHANGED <<m_data, m_magnitude, m_phase, stop_calls, dispatched>>

\* renderer.update()
MainUpdate ==
    /\ pc = "update"
    /\ \E events \in EventQueues : UpdateRenderer(events)
    /\ pc' = "while"
    /\ UNCHANGED <<m_data, m_magnitude, m_phase, stop_calls>>

\* except KeyboardInterrupt: pass.  The interrupt arrives between two
\* statements of the loop.
MainInterrupt ==
    /\ pc \in {"while", "read_chunk", "process", "render", "update"}
    /\ pc' = "finally"
    /\ raised' = "KeyboardInterrupt"
    /\ UNCHANGED <<renderer, ui, sources, m_data, m_magnitude, m_phase, stop_calls,
                   dispatched, steps, printed, op, arg, ret, before>>

\* finally: audio.stop()
MainFinally ==
    /\ pc = "finally"
    /\ FileStop
    /\ stop_calls' = stop_calls + 1
    /\ pc' = "print"
    /\ UNCHANGED <<m_data, m_magnitude, m_phase, dispatched, steps>>

\* print("Exiting...")
MainPrint ==
    /\ pc = "print"
    /\ printed' = <<"Exiting...">>
    /\ pc' = "done"
    /\ UNCHANGED <<renderer, ui, sources, m_data, m_magnitude, m_phase, stop_calls,
                   dispatched, steps, op, arg, ret, raised, before>>

\* main() on the default silent buffer or on a loaded file
InitMainLoop ==
    /\ InitRenderer /\ InitCall /\ InitMain
    /\ data \in {Some(Zeros(MaxDataLen, 2)), Some(FileData(MaxDataLen))}
    /\ cursor = 0
    /\ loop = TRUE
    /\ stream = None /\ dtype = "float32" /\ channels = 2

MainTick == MainWhile \/ MainReadChunk \/ MainProcess \/ MainRender \/ MainUpdate

NextMain == MainStart \/ MainTick \/ MainInterrupt \/ MainFinally \/ MainPrint

\* the frame loop, stopped by a quit event or an interrupt
SpecMain == InitMainLoop /\ [][NextMain]_vars

\* ------------------------------------------------------------------------
\* Claims
\* ------------------------------------------------------------------------

\* C1: in automatic-scale mode, after every call of _normalize_spectrum on
\* a non-empty array of maximum m, running_max >= m * 0.5 and running_max >=
\* the floor 1.0, whatever calls came before.
C1_RunningMaxBounded ==
    (op = "_normalize_spectrum" /\ scale_multiplier = None /\ raised = "none")
        => /\ 2 * running_max >= NpMax(Val(arg))
           /\ running_max >= RUNNING_MAX_FLOOR

\* C1 witness: an automatic call that found the frame maximum below the
\* running maximum and let it decay, to a value still above the floor.
C1_Witness ==
    /\ op = "_normalize_spectrum" /\ scale_multiplier = None /\ raised = "none"
    /\ NpMax(Val(arg)) > ONE
    /\ running_max > NpMax(Val(arg))
    /\ running_max < 2 * NpMax(Val(arg))

\* C1 witness of the floor: silence after a loud frame, the running maximum
\* clamped at 1.0
C1_WitnessFloor ==
    /\ op = "_normalize_spectrum" /\ scale_multiplier = None /\ raised = "none"
    /\ NpMax(Val(arg)) = 0
    /\ running_max = RUNNING_MAX_FLOOR

\* the last call was a call of _apply_smoothing that blended: it found a
\* state, of the shape of its input
BlendingCall ==
    /\ op = "_apply_smoothing"
    /\ before # None
    /\ Shape(Val(before)) = Shape(Val(arg))

\* C5: a call of _apply_smoothing that blends moves every bin from its
\* previous smoothed value toward the input c without passing it: the new
\* value lies between the previous value and c, and its distance to c is
\* smoothing_factor times the previous distance (so repeated calls with the
\* same c converge to c, and a state equal to c stays c).
C5_SmoothingContracts ==
    BlendingCall =>
        LET c == Val(arg)
            prev == Val(before)
            new == Val(ret)
        IN  /\ Shape(new) = Shape(c)
            /\ \A ch \in 1..Len(c) : \A i \in 1..Len(c[ch]) :
                /\ Min2(prev[ch][i], c[ch][i]) <= new[ch][i]
                /\ new[ch][i] <= Max2(prev[ch][i], c[ch][i])
                /\ 10 * (new[ch][i] - c[ch][i])
                     = SMOOTHING_TENTHS * (prev[ch][i] - c[ch][i])
                /\ (prev[ch][i] = c[ch][i] => new[ch][i] = c[ch][i])

\* C5 witness: the state found was already a blend (off the input grid) and
\* the call moved it again toward c, strictly between where it was and c
C5_Witness ==
    /\ BlendingCall
    /\ \E ch \in 1..2 : \E i \in 1..Len(Val(arg)[ch]) :
          /\ Val(before)[ch][i] % Pow10(SmoothDepth) # 0
          /\ Val(before)[ch][i] < Val(ret)[ch][i]
          /\ Val(ret)[ch][i] < Val(arg)[ch][i]

\* C6: the first call of _apply_smoothing, and any call whose input has
\* another shape than the stored state, returns the raw input and stores a
\* copy of it; every other call stores and returns
\* smoothing_factor * previous + (1 - smoothing_factor) * input.
C6_ResetOrBlend ==
    op = "_apply_smoothing" =>
        LET c == Val(arg)
        IN  IF ~BlendingCall
            THEN ret = Some(c) /\ smoothed_spectrum = Some(c)
            ELSE /\ ret = smoothed_spectrum
                 /\ Shape(Val(ret)) = Shape(c)
                 /\ \A ch \in 1..Len(c) : \A i \in 1..Len(c[ch]) :
                       10 * Val(ret)[ch][i]
                         = SMOOTHING_TENTHS * Val(before)[ch][i]
                           + (10 - SMOOTHING_TENTHS) * c[ch][i]

\* C6 witness: a stored state that was a blend was replaced by the raw input
\* of another shape
C6_Witness ==
    /\ op = "_apply_smoothing"
    /\ before # None
    /\ Shape(Val(before)) # Shape(Val(arg))
    /\ \E ch \in 1..2 : \E i \in 1..Len(Val(before)[ch]) :
          Val(before)[ch][i] % Pow10(SmoothDepth) # 0
    /\ smoothed_spectrum = arg

\* C3: spawn called when every slot is active returns without raising and
\* leaves the pool as it was: the active count, particle_count and every
\* slot's position, velocity, size, color, age, lifetime and active flag.
C3_SpawnWhenFullDropped ==
    [][(op' = "spawn" /\ ActiveCount(particle_system) = particle_system.max_particles)
        => /\ raised' = "none"
           /\ particle_system' = particle_system
           /\ ActiveCount(particle_system') = ActiveCount(particle_system)
      ]_vars

\* C3 witness: spawn has just been called on a pool it found full; the pool
\* is full and no slot holds a fresh particle
C3_Witness ==
    /\ op = "spawn"
    /\ before = particle_system.max_particles
    /\ ActiveCount(particle_system) = particle_system.max_particles
    /\ \A i \in 1..particle_system.max_particles :
          particle_system.active[i] /\ particle_system.ages[i] > 0

\* C4: after any sequence of spawn and update calls the number of active
\* slots is at most max_particles and particle_count is that number.
C4_CountIsActiveSlots ==
    /\ ActiveCount(particle_system) <= particle_system.max_particles
    /\ particle_system.particle_count = ActiveCount(particle_system)
    /\ particle_system.particle_count \in 0..particle_system.max_particles

\* C4 witness: an update has just deactivated two particles at once and left
\* a pool that is neither empty nor full
C4_Witness ==
    /\ op = "update"
    /\ before = particle_system.particle_count + 2
    /\ particle_system.particle_count > 0

\* the last n elements of a sequence (all of it when it has fewer)
LastN(q, n) == SubSeq(q, Max2(1, Len(q) - n + 1), Len(q))

C9_ChunkIsFullSize ==
    op = "FileAudioSource.read_chunk" =>
        /\ Len(Val(ret)) = CHUNK_SIZE
        /\ \A i \in 1..Len(Val(ret)) : Len(Val(ret)[i]) = 2

\* C10: LiveAudioSource.read_chunk never raises.  Without a stream, or when
\* the read raises, it returns the zero-filled block of CHUNK_SIZE frames;
\* when the device reports overflow it returns the block read (converted
\* from int32 when the stream is an int32 stream) and prints only the
\* overflow warning.  FileAudioSource.read_chunk with no data returns the
\* zero-filled CHUNK_SIZE x 2 block.
C10_ReadChunkNeverRaises ==
    /\ op = "LiveAudioSource.read_chunk" =>
        /\ raised = "none"
        /\ Len(Val(ret)) = CHUNK_SIZE
        /\ (IF before = None THEN TRUE ELSE Val(arg).outcome = "raises")
              => ret = Some(Zeros(CHUNK_SIZE, channels))
        /\ (before = Some("active") /\ Val(arg).outcome = "overflowed")
              => /\ printed = <<"Warning: Audio buffer overflow detected!">>
                 /\ \A i \in 1..CHUNK_SIZE : \A k \in 1..channels :
                       Val(ret)[i][k] =
                          IF dtype = "int32"
                          THEN Int32ToFloat(Val(arg).block[i][k])
                          ELSE Val(arg).block[i][k]
    /\ \A cur \in 0..MaxDataLen : \A lp \in BOOLEAN :
          FileChunk(None, cur, lp) = Zeros(CHUNK_SIZE, 2)

\* C10 witness: the read of a started stream raised and the caller got the
\* zero-filled block and a printed error
C10_Witness ==
    /\ op = "LiveAudioSource.read_chunk"
    /\ before = Some("active")
    /\ Val(arg).outcome = "raises"
    /\ raised = "none"
    /\ ret = Some(Zeros(CHUNK_SIZE, channels))
    /\ printed = <<"Error reading audio">>

\* C10 witness of the overflow: an int32 stream overflowed and the block read
\* was returned, converted and not zero
C10_WitnessOverflow ==
    /\ op = "LiveAudioSource.read_chunk"
    /\ before = Some("active")
    /\ Val(arg).outcome = "overflowed"
    /\ dtype = "int32"
    /\ ret # Some(Zeros(CHUNK_SIZE, channels))
    /\ ret # Some(Val(arg).block)

\* the last call was render, given an empty spectrum: None, an array without
\* channels, or an array with channels of no bin
RenderedEmpty ==
    /\ op = "render"
    /\ IF Val(arg) = None THEN TRUE ELSE Size(Val(Val(arg))) = 0

\* C7: render given an empty spectrum (None, no channel, or shape (2, 0)) is
\* a no-op frame in every mode: it returns without raising and leaves
\* running_max, the smoothed spectrum, the particle pool, the terrain
\* histories and the spectrogram image as they were.
C7_EmptySpectrumIsNoOp ==
    RenderedEmpty =>
        /\ raised = "none"
        /\ <<running_max, smoothed_spectrum, spectrogram_surf, particle_system,
             terrain_history_left, terrain_history_right>>
             = <<before[1], before[2], before[3], before[5], before[6], before[7]>>

\* C7, the part that holds: None and an array without channels are no-op
\* frames (render returns at its first test)
C7_NoneOrNoChannelIsNoOp ==
    (op = "render" /\ (IF Val(arg) = None THEN TRUE ELSE Len(Val(Val(arg))) = 0)) =>
        /\ raised = "none"
        /\ viz = before

\* the bins per channel below which C8 calls a spectrum undersized: 60 in
\* terrain mode, 4 in the other modes
UndersizedBelow(m) == IF m = "terrain" THEN TERRAIN_NUM_BINS ELSE 4

\* the last call was render, given a spectrum that is not empty but
\* undersized for the mode
RenderedUndersized ==
    /\ op = "render"
    /\ Val(arg) # None
    /\ Size(Val(Val(arg))) > 0
    /\ Shape(Val(Val(arg)))[2] < UndersizedBelow(mode)

\* C8: in every one of the nine modes, render given a spectrum that is not
\* empty but undersized (fewer than 4 bins per channel; fewer than 60 in
\* terrain mode) completes without raising.
C8_UndersizedSpectrumSkipped ==
    RenderedUndersized => raised = "none"

\* C11: every tick of the frame loop runs its stages in one order, read_chunk,
\* process, _normalize_spectrum, _apply_smoothing, the method of the mode,
\* the event drain, clock.tick, and a tick ends before the next one begins:
\* the stages that ran so far are whole ticks in that order followed by the
\* beginning of one, and a tick begins only when the last one is whole.
TickStages == <<"read_chunk", "process", "_normalize_spectrum", "_apply_smoothing",
                "mode", "pygame.event.get", "clock.tick">>
C11_TickStagesInOrder ==
    /\ \A i \in 1..Len(steps) :
          LET k == ((i - 1) % Len(TickStages)) + 1
          IN  IF TickStages[k] = "mode"
              THEN steps[i] \in {RenderMethod(m) : m \in {modes[j] : j \in 1..Len(modes)}}
              ELSE steps[i] = TickStages[k]
    /\ pc \in {"while", "read_chunk"} => Len(steps) % Len(TickStages) = 0
    /\ pc = "process" => Len(steps) % Len(TickStages) = 1
    /\ pc = "render" => Len(steps) % Len(TickStages) = 2
    /\ pc = "update" =>
          /\ Len(steps) % Len(TickStages) = 5
          /\ steps[Len(steps)] = RenderMethod(mode)

\* two whole ticks ran, the second one in terrain mode
C11_Witness ==
    /\ pc = "while"
    /\ Len(steps) = 2 * Len(TickStages)
    /\ steps[Len(TickStages) + 5] = "_render_spectral_terrain"

\* C12: a quit event sets running to False without cutting the drain short:
\* the update() that finds a quit event in its queue dispatches every event
\* of the queue, those after the quit event too, and ends with clock.tick;
\* from then on running stays False and no stage of the loop runs again;
\* audio.stop() is never called twice, and main has ended only with exactly
\* one call of it made.
QuitIn(events) == \E i \in 1..Len(events) : events[i].type = "QUIT"
C12_QuitDrain ==
    (pc = "update" /\ pc' = "while" /\ QuitIn(Val(arg'))) =>
        /\ running' = FALSE
        /\ dispatched' = Val(arg')
        /\ UiState' = Drain([s |-> UiState, dispatched |-> <<>>], Val(arg')).s
        /\ SubSeq(steps', Len(steps) + 1, Len(steps')) = <<"pygame.event.get", "clock.tick">>
C12_QuitIsFinal == ~running => (~running' /\ steps' = steps)
C12_QuitEndsLoop ==
    /\ [][C12_QuitDrain /\ C12_QuitIsFinal]_<<pc, running, steps, dispatched>>
    /\ [](stop_calls <= 1 /\ (pc \in {"print", "done"} <=> stop_calls = 1))
    /\ [](~running => pc \in {"while", "finally", "print", "done"})

\* main ended after a drain of three events whose second one was the quit
\* event: the click after it selected the scale 2x
C12_Witness ==
    /\ pc = "done" /\ ~running /\ stop_calls = 1
    /\ Len(dispatched) = 3 /\ dispatched[2].type = "QUIT"
    /\ scale_multiplier = Some(2 * ONE)

\* C13: a selection takes effect inside update(): when the last event of
\* the queue is a left click on option row i of a dropdown that is open at
\* that point of the drain, then when update() returns the dropdown is
\* closed on row i and mode is the mode of that row (mode dropdown) or
\* scale_multiplier the value of that row (scale dropdown, None for
\* Automatic); no other statement of the loop writes mode or
\* scale_multiplier, and the next render() dispatches on that mode and, with
\* a scale selected, leaves running_max alone.
RowHit(rect, options, pos) ==
    {i \in 0..(Len(options) - 1) : CollidePoint(OptRect(rect, i), pos)}
C13_SelectedOnReturn ==
    (pc = "update" /\ pc' = "while" /\ Val(arg') # <<>>) =>
        LET events == Val(arg')
            last == events[Len(events)]
            pre == Drain([s |-> UiState, dispatched |-> <<>>],
                         SubSeq(events, 1, Len(events) - 1)).s
            click == last.type = "MOUSEBUTTONDOWN" /\ last.button = 1
        IN  /\ \A i \in RowHit(dropdown_rect, dropdown_options, last.pos) :
                  (click /\ pre.dropdown.is_open) =>
                      /\ mode' = modes[i + 1]
                      /\ dropdown' = [selected_idx |-> i, is_open |-> FALSE]
            /\ \A i \in RowHit(scale_dropdown_rect, scale_options, last.pos) :
                  (click /\ pre.scale_dropdown.is_open) =>
                      /\ scale_multiplier' = scale_values(scale_options[i + 1])
                      /\ scale_dropdown' = [selected_idx |-> i, is_open |-> FALSE]
C13_UsedByNextRender ==
    /\ pc # "update" => UNCHANGED <<mode, scale_multiplier>>
    /\ (pc = "render" /\ pc' = "update") =>
          /\ steps'[Len(steps')] = RenderMethod(mode)
          /\ scale_multiplier # None => running_max' = running_max
C13_WitnessScale ==
    /\ pc = "while" /\ frame = 2
    /\ scale_multiplier = None /\ Len(dispatched) = 1
    /\ dispatched[1] = MouseButtonDown(1, OnRow(scale_dropdown_rect, 0))
    /\ scale_dropdown = [selected_idx |-> 0, is_open |-> FALSE]
    /\ before[1].scale_dropdown.is_open

\* C14: every space key press that update() dispatches moves mode one entry
\* forward in the order bars, line, spectrogram, wave, radial, radial_curves,
\* phase_clock, particles, terrain, from terrain back to bars, and leaves
\* scale_multiplier as it was; an update() whose queue is nine presses
\* returns with the mode it started with.
ModeOrder == <<"bars", "line", "spectrogram", "wave", "radial", "radial_curves",
               "phase_clock", "particles", "terrain">>
C14_SpaceStep ==
    (pc = "update" /\ pc' = "while") =>
        LET events == Val(arg')
            After(n) == Drain([s |-> UiState, dispatched |-> <<>>], SubSeq(events, 1, n)).s
        IN  /\ After(Len(events)).mode = mode'
            /\ \A n \in 1..Len(events) :
                  (events[n].type = "KEYDOWN" /\ events[n].key = "K_SPACE") =>
                      /\ \E j \in 1..Len(ModeOrder) :
                            /\ After(n - 1).mode = ModeOrder[j]
                            /\ After(n).mode = ModeOrder[(j % Len(ModeOrder)) + 1]
                      /\ After(n).scale_multiplier = After(n - 1).scale_multiplier
            /\ events = SpacePresses(Len(ModeOrder)) =>
                  mode' = mode /\ scale_multiplier' = scale_multiplier
C14_SpaceCyclesModes == [][C14_SpaceStep]_<<pc, mode, scale_multiplier>>

\* one press in terrain mode led to bars
C14_Witness ==
    /\ pc = "while" /\ frame = 2
    /\ dispatched = SpacePresses(1)
    /\ before[1].mode = "terrain" /\ mode = "bars"

\* nine presses in one queue, in wave mode
C14_WitnessNine ==
    /\ pc = "while" /\ frame = 2
    /\ dispatched = SpacePresses(Len(ModeOrder))
    /\ before[1].mode = "wave" /\ mode = "wave"

\* C15: with a manual scale selected, a call of _normalize_spectrum returns
\* every element of its input times the multiplier, does not raise and
\* leaves running_max as it was; running_max changes in no step other than
\* an automatic-mode call, which updates it from the value the last
\* automatic-mode call left, however many manual calls came in between.
C15_ManualCall ==
    (op' = "_normalize_spectrum" /\ scale_multiplier # None) =>
        /\ raised' = "none"
        /\ running_max' = running_max
        /\ Shape(Val(ret')) = Shape(Val(arg'))
        /\ \A ch \in 1..Len(Val(arg')) : \A b \in 1..Len(Val(arg')[ch]) :
              Val(ret')[ch][b] = (Val(arg')[ch][b] * Val(scale_multiplier)) \div ONE
C15_AutomaticOnly ==
    /\ running_max' # running_max =>
          (op' = "_normalize_spectrum" /\ scale_multiplier = None)
    /\ (op' = "_normalize_spectrum" /\ scale_multiplier = None /\ raised' = "none") =>
          running_max' = UpdateRunningMax(running_max, NpMax(Val(arg')))
C15_ManualScaleFreezesRunningMax ==
    [][C15_ManualCall /\ C15_AutomaticOnly]_<<op, arg, ret, raised, running_max,
                                             scale_multiplier>>

\* a call with the scale 2x selected, on a frame louder than the running
\* maximum, which an automatic call had raised above its initial value
C15_Witness ==
    /\ op = "_normalize_spectrum" /\ scale_multiplier = Some(2 * ONE)
    /\ running_max > INITIAL_RUNNING_MAX
    /\ Size(Val(arg)) > 0
    /\ NpMax(Val(arg)) > running_max
    /\ NpMax(Val(ret)) = 2 * NpMax(Val(arg))

\* C20: an automatic-mode call whose frame maximum cm is above the running
\* maximum sets running_max to cm; any other automatic-mode call sets it to
\* the largest of the previous value times max_decay, cm * 0.5 and 1.0; in
\* both cases running_max is at least max_decay times its previous value.
C20_Step ==
    (op' = "_normalize_spectrum" /\ scale_multiplier = None /\ raised' = "none") =>
        LET cm == NpMax(Val(arg'))
            decayed == (running_max * MAX_DECAY_MILLI) \div 1000
        IN  /\ cm > running_max => running_max' = cm
            /\ cm <= running_max =>
                  /\ running_max' >= decayed
                  /\ 2 * running_max' >= cm
                  /\ running_max' >= ONE
                  /\ running_max' \in {decayed, cm \div 2, ONE}
            /\ running_max' >= decayed
C20_FastAttackSlowRelease == [][C20_Step]_<<op, arg, ret, raised, running_max>>

\* a release: a frame quieter than the running maximum let it decay by the
\* factor max_decay, the two other bounds being lower
C20_Witness ==
    /\ op = "_normalize_spectrum" /\ scale_multiplier = None /\ raised = "none"
    /\ before > ONE
    /\ NpMax(Val(arg)) < before
    /\ running_max = (before * MAX_DECAY_MILLI) \div 1000
    /\ running_max > ONE /\ 2 * running_max > NpMax(Val(arg))

\* an attack: a frame louder than the running maximum, which took its value
C20_WitnessAttack ==
    /\ op = "_normalize_spectrum" /\ scale_multiplier = None /\ raised = "none"
    /\ NpMax(Val(arg)) > before
    /\ running_max = NpMax(Val(arg))

\* C16: after every automatic-mode call of _render_waveform, waveform_max is
\* at least 0.01 and at least half the absolute value of every sample drawn;
\* a call with a manual scale selected leaves waveform_max as it found it;
\* no call of _render_waveform changes running_max and no call of
\* _normalize_spectrum changes waveform_max.
C16_AfterCall ==
    (op = "_render_waveform" /\ raised = "none") =>
        IF scale_multiplier = None
        THEN /\ 100 * waveform_max >= ONE
             /\ \A ch \in 1..2 : \A k \in 1..Len(Val(ret)[ch]) :
                   2 * waveform_max >= Abs(Val(ret)[ch][k][2])
        ELSE waveform_max = before
C16_Independent ==
    /\ op' = "_render_waveform" => running_max' = running_max
    /\ op' = "_normalize_spectrum" => waveform_max' = waveform_max
C16_WaveformTracker ==
    /\ []C16_AfterCall
    /\ [][C16_Independent]_<<op, arg, ret, raised, running_max, waveform_max>>

\* an automatic-mode call on silence found waveform_max at its floor and the
\* floor held it there, while running_max stands above its own floor
C16_Witness ==
    /\ op = "_render_waveform" /\ scale_multiplier = None /\ raised = "none"
    /\ before = WAVEFORM_MAX_FLOOR
    /\ waveform_max = WAVEFORM_MAX_FLOOR
    /\ running_max > RUNNING_MAX_FLOOR

\* a manual-mode call on a block louder than waveform_max
C16_WitnessManual ==
    /\ op = "_render_waveform" /\ scale_multiplier # None
    /\ \E k \in 1..Len(Val(ret)[1]) : Abs(Val(ret)[1][k][2]) > waveform_max

\* C17: on any block of the full length, _render_waveform returns without
\* raising; its trigger index is below half the length of the block, its
\* drawn length min(length - trigger index, WINDOW_WIDTH) is at least 2, the
\* slice it draws ends within the block, and each of the two channels gets
\* a polyline of that many points.
C17_WaveformDrawsTwoPolylines ==
    op = "_render_waveform" =>
        LET audio_chunk == Val(arg)
            t == TriggerIdx(audio_chunk)
            n == IF Len(audio_chunk) - t < WINDOW_WIDTH
                 THEN Len(audio_chunk) - t ELSE WINDOW_WIDTH
        IN  /\ raised = "none"
            /\ 2 * t < Len(audio_chunk)
            /\ DrawLen(audio_chunk) = n
            /\ n >= 2
            /\ t + n <= Len(audio_chunk)
            /\ \A ch \in 1..2 : Len(Val(ret)[ch]) = n

\* the trigger was found at the last index searched, and a later crossing
\* of the block was not looked at
C17_Witness ==
    /\ op = "_render_waveform" /\ raised = "none"
    /\ TriggerIdx(Val(arg)) = (WaveBlockLen \div 2) - 1
    /\ Val(arg)[WaveBlockLen - 1][1] < 0 /\ Val(arg)[WaveBlockLen][1] > 0
    /\ Len(Val(ret)[2]) >= 2

\* C18: a call of _render_spectrogram on a spectrum of shape (2, 1025) does
\* not raise; for each channel the row has WINDOW_WIDTH // 2 entries, every
\* bin it samples is one of the limit = 512 bins kept, every index into the
\* colormap is within 0..255, and the bottom row of the image holds the
\* colours of the left row then those of the right row.  The sampled bins
\* are within the bins kept for every row width from 1 to MaxHalfWidth.
MaxHalfWidth == 9
C18_SpectrogramShapes ==
    (op = "_render_spectrogram" /\ Shape(Val(arg)) = <<2, SpectrumBins>>) =>
        LET spectrum == Val(arg)
            half_width == WINDOW_WIDTH \div 2
            limit == SpectrumBins \div 2
            bottom == spectrogram_surf[WINDOW_HEIGHT]
        IN  /\ raised = "none"
            /\ \A w \in 1..MaxHalfWidth :
                  /\ Len(SampledBins(limit, w)) = w
                  /\ \A x \in 1..w : SampledBins(limit, w)[x] \in 0..(limit - 1)
                  /\ SampledBins(limit, w)[1] = 0
                  /\ \A ch \in 1..2 : \A x \in 1..w :
                        ColorIndices(spectrum, ch, w)[x] \in 0..255
            /\ Len(bottom) = WINDOW_WIDTH
            /\ \A ch \in 1..2 :
                  /\ Len(SpectrogramRow(spectrum, ch)) = half_width
                  /\ \A x \in 1..half_width :
                        /\ bottom[(ch - 1) * half_width + x] = SpectrogramRow(spectrum, ch)[x]
                        /\ \A c \in 1..3 : SpectrogramRow(spectrum, ch)[x][c] \in 0..255

\* a call on a spectrum whose left row reaches both ends of the colormap:
\* index 255 for the magnitude 50.0 and index 0 for 0.001
C18_Witness ==
    /\ op = "_render_spectrogram" /\ raised = "none"
    /\ Shape(Val(arg)) = <<2, SpectrumBins>>
    /\ \E x \in 1..(WINDOW_WIDTH \div 2) :
          ColorIndices(Val(arg), 1, WINDOW_WIDTH \div 2)[x] = 255
    /\ \E x \in 1..(WINDOW_WIDTH \div 2) :
          ColorIndices(Val(arg), 1, WINDOW_WIDTH \div 2)[x] = 0
    /\ SampledBins(SpectrumBins \div 2, WINDOW_WIDTH \div 2)[WINDOW_WIDTH \div 2]
          = SpectrumBins \div 2 - 1

\* C19: the state a mode keeps between frames changes in no step other than
\* a render() in that mode: the spectrogram image only in spectrogram mode,
\* the particle pool only in particles mode, the terrain histories only in
\* terrain mode, waveform_max only in wave mode; selecting a mode changes
\* none of them.
C19_Step ==
    /\ spectrogram_surf' # spectrogram_surf => (op' = "render" /\ mode = "spectrogram")
    /\ particle_system' # particle_system => (op' = "render" /\ mode = "particles")
    /\ <<terrain_history_left, terrain_history_right>>'
          # <<terrain_history_left, terrain_history_right>>
          => (op' = "render" /\ mode = "terrain")
    /\ waveform_max' # waveform_max => (op' = "render" /\ mode = "wave")
C19_ModeStateIsPrivate ==
    [][C19_Step]_<<frame, mode, op, spectrogram_surf, particle_system, terrain_history_left,
                   terrain_history_right, waveform_max>>

\* a frame in spectrogram mode drew a row, the mode was switched, and a
\* frame in another mode ran its normalizer and left the image as it was
C19_Witness ==
    /\ op = "render" /\ raised = "none" /\ mode # "spectrogram"
    /\ spectrogram_surf # BlankSurface
    /\ before[3] = spectrogram_surf
    /\ before[1] # running_max

\* the mode was switched back and the next frame in spectrogram mode
\* scrolled the row of the first one up
C19_WitnessBack ==
    /\ op = "render" /\ raised = "none" /\ mode = "spectrogram" /\ frame = 3
    /\ spectrogram_surf[WINDOW_HEIGHT - 1] # BlankSurface[WINDOW_HEIGHT - 1]
    /\ spectrogram_surf[WINDOW_HEIGHT - 1] # spectrogram_surf[WINDOW_HEIGHT]
    /\ particle_system # NewParticleSystem(MaxParticles)

\* C21: each spectrogram render moves every row of the image up by one and
\* paints one new bottom row, the left channel in the first WINDOW_WIDTH // 2
\* columns and the right channel from column WINDOW_WIDTH // 2 on; after n
\* renders the k-th row from the bottom holds the row painted k renders
\* earlier, for every k < min(n, WINDOW_HEIGHT), apart from the separator
\* column, which holds SEPARATOR_COLOR in every row above the bottom one.
C21_RowsHoldHistory ==
    LET half_width == WINDOW_WIDTH \div 2
        n == Len(spectrogram_log)
    IN  \A k \in 0..(Min2(n, WINDOW_HEIGHT) - 1) :
            \A x \in 1..(2 * half_width) :
                IF k > 0 /\ x = half_width + 1
                THEN spectrogram_surf[WINDOW_HEIGHT - k][x] = SEPARATOR_COLOR
                ELSE spectrogram_surf[WINDOW_HEIGHT - k][x] = spectrogram_log[n - k][x]

C21_Step ==
    (op' = "_render_spectrogram" /\ raised' = "none") =>
        LET half_width == WINDOW_WIDTH \div 2
        IN  /\ \A y \in 1..(WINDOW_HEIGHT - 1) : \A x \in 1..WINDOW_WIDTH :
                  x # half_width + 1 => spectrogram_surf'[y][x] = spectrogram_surf[y + 1][x]
            /\ \A x \in 1..half_width :
                  /\ spectrogram_surf'[WINDOW_HEIGHT][x] = SpectrogramRow(Val(arg'), 1)[x]
                  /\ spectrogram_surf'[WINDOW_HEIGHT][half_width + x]
                        = SpectrogramRow(Val(arg'), 2)[x]
            /\ spectrogram_log' # spectrogram_log

C21_SpectrogramScrolls ==
    /\ []C21_RowsHoldHistory
    /\ [][C21_Step]_<<op, arg, raised, spectrogram_surf, spectrogram_log>>

\* after at least WINDOW_HEIGHT renders the image holds WINDOW_HEIGHT
\* painted rows, the bottom one differing from the one above it outside the
\* separator column
C21_Witness ==
    /\ op = "_render_spectrogram" /\ raised = "none"
    /\ Len(spectrogram_log) = WINDOW_HEIGHT
    /\ \E x \in 1..(2 * (WINDOW_WIDTH \div 2)) :
          /\ x # WINDOW_WIDTH \div 2 + 1
          /\ spectrogram_surf[WINDOW_HEIGHT][x] # spectrogram_surf[WINDOW_HEIGHT - 1][x]
    /\ spectrogram_surf[1] # spectrogram_surf[2]

\* C22: an update adds dt to the age of every active particle and
\* velocity * dt to its position, and deactivates exactly those whose age has
\* reached their lifetime; no other step deactivates a particle; spawn takes
\* the lowest inactive slot, resets its age to 0 and leaves the other slots
\* alone; and when updates keep occurring every active particle is
\* eventually deactivated.
C22_Step ==
    LET ps == particle_system
        slots == 1..ps.max_particles
    IN  /\ op' = "update" =>
              \A i \in slots :
                 IF ps.active[i]
                 THEN /\ ps'.ages[i] = ps.ages[i] + StepDt
                      /\ ps'.positions[i][1]
                            = ps.positions[i][1] + ps.velocities[i][1] * StepDt
                      /\ ps'.positions[i][2]
                            = ps.positions[i][2] + ps.velocities[i][2] * StepDt
                      /\ ps'.active[i] <=> (ps'.ages[i] < ps.lifetimes[i])
                      /\ ps'.lifetimes[i] = ps.lifetimes[i]
                 ELSE /\ ~ps'.active[i]
                      /\ ps'.ages[i] = ps.ages[i]
        /\ op' = "spawn" =>
              \E idx \in InactiveIndices(ps) :
                 /\ \A j \in InactiveIndices(ps) : idx <= j
                 /\ ps'.active[idx]
                 /\ ps'.ages[idx] = 0
                 /\ ps'.lifetimes[idx] \in 0..MaxLifetime
                 /\ \A i \in slots \ {idx} :
                       /\ ps'.active[i] = ps.active[i]
                       /\ ps'.ages[i] = ps.ages[i]
                       /\ ps'.lifetimes[i] = ps.lifetimes[i]
        /\ op' \in {"update", "spawn"}

C22_ParticleLifecycle ==
    /\ [][C22_Step]_particle_system
    /\ \A i \in 1..MaxParticles :
          (particle_system.active[i]) ~> (~particle_system.active[i])

\* the first slot has been spawned, has died at an update at which the
\* second slot aged and stayed active, and has been taken by a later spawn
C22_Witness ==
    /\ op = "spawn"
    /\ particle_system.active[1] /\ particle_system.ages[1] = 0
    /\ particle_system.lifetimes[1] > 0
    /\ particle_system.active[2] /\ particle_system.ages[2] >= 1

\* C23: the trigger index of _render_waveform is the smallest i below half
\* the block length (len // 2) with left[i] < 0 and left[i + 1] > 0, and 0
\* when there is none; index i + 1 is inside the block for every i searched;
\* and the polyline of each channel holds the samples of that channel from
\* the trigger index on.
C23_TriggerIsFirstCrossing ==
    op = "_render_waveform" =>
        LET audio_chunk == Val(arg)
            n == Len(audio_chunk)
            t == TriggerIdx(audio_chunk)
            searched == {i \in 0..(n - 1) : i < n \div 2}
            rising == {i \in searched : audio_chunk[i + 1][1] < 0 /\ audio_chunk[i + 2][1] > 0}
        IN  /\ \A i \in searched : i + 1 \in 0..(n - 1)
            /\ rising = {} => t = 0
            /\ rising # {} => (t \in rising /\ \A j \in 0..(t - 1) : j \notin rising)
            /\ raised = "none"
            /\ \A ch \in 1..2 :
                  /\ Len(Val(ret)[ch]) >= 2
                  /\ \A k \in 1..Len(Val(ret)[ch]) :
                        Val(ret)[ch][k][2] = audio_chunk[t + k][ch]

\* the trigger is the last index searched: the left channel falls to zero
\* (not a crossing) and then rises through zero, and both polylines start
\* at the negative sample
C23_Witness ==
    /\ op = "_render_waveform" /\ raised = "none"
    /\ Val(arg)[1][1] < 0 /\ Val(arg)[2][1] = 0
    /\ Val(arg)[3][1] < 0 /\ Val(arg)[4][1] > 0
    /\ TriggerIdx(Val(arg)) = 2
    /\ Val(ret)[1][1][2] = Val(arg)[3][1]
    /\ Val(ret)[2][1][2] = Val(arg)[3][2]

\* C24: Dropdown.handle_event.  On a closed dropdown a left click on the
\* button opens it and any other event changes nothing; on an open dropdown
\* a left click on option row i sets selected_idx to i, closes it and calls
\* the callback once with (i, options[i]); a left click on the button or
\* anywhere else closes it, leaves selected_idx alone and calls nothing.
\* Stated for each of the two dropdowns at every update() of one event, on
\* the dropdown as it was before the call.
C24_HandleEventCases(dd, rect, options, event) ==
    LET h == HandleEvent(dd, rect, options, event)
        click == event.type = "MOUSEBUTTONDOWN" /\ event.button = 1
        rows == RowHit(rect, options, event.pos)
        on_button == CollidePoint(rect, event.pos)
    IN  /\ (~dd.is_open /\ click /\ on_button) =>
              /\ h.dd = [selected_idx |-> dd.selected_idx, is_open |-> TRUE]
              /\ h.selected = None
        /\ (~dd.is_open /\ ~(click /\ on_button)) =>
              /\ h.dd = dd
              /\ h.selected = None
        /\ (dd.is_open /\ click) =>
              /\ Cardinality(rows) <= 1
              /\ \A i \in rows :
                    /\ h.dd = [selected_idx |-> i, is_open |-> FALSE]
                    /\ h.selected = Some(i)
              /\ rows = {} =>
                    /\ h.dd = [selected_idx |-> dd.selected_idx, is_open |-> FALSE]
                    /\ h.selected = None

C24_DropdownHandleEvent ==
    (op = "update" /\ Len(Val(arg)) = 1) =>
        LET event == Val(arg)[1]
            pre == Val(before)
            space == event.type = "KEYDOWN" /\ event.key = "K_SPACE"
            h1 == HandleEvent(pre.dropdown, dropdown_rect, dropdown_options, event)
            h2 == HandleEvent(pre.scale_dropdown, scale_dropdown_rect, scale_options, event)
        IN  /\ C24_HandleEventCases(pre.dropdown, dropdown_rect, dropdown_options, event)
            /\ C24_HandleEventCases(pre.scale_dropdown, scale_dropdown_rect, scale_options,
                                    event)
            /\ scale_dropdown = h2.dd
            /\ ~space => dropdown = h1.dd
            /\ IF h1.selected = None
               THEN ~space => mode = pre.mode
               ELSE mode = mode_map(dropdown_options[Val(h1.selected) + 1])
            /\ IF h2.selected = None
               THEN scale_multiplier = pre.scale_multiplier
               ELSE scale_multiplier = scale_values(scale_options[Val(h2.selected) + 1])

\* the scale dropdown was open with 2x selected and a left click on its
\* button has closed it: 2x is still selected and still the scale
C24_Witness ==
    /\ op = "update" /\ Len(Val(arg)) = 1
    /\ Val(arg)[1] = MouseButtonDown(1, OnButton(scale_dropdown_rect))
    /\ Val(before).scale_dropdown = [selected_idx |-> 3, is_open |-> TRUE]
    /\ scale_dropdown = [selected_idx |-> 3, is_open |-> FALSE]
    /\ scale_multiplier = Some(2 * ONE)

\* C26: after any sequence of events processed by update() the option
\* selected in the mode dropdown is the one of the current mode, and the
\* option selected in the scale dropdown is the one of the current scale.
C26_DropdownsMatchState ==
    /\ dropdown.selected_idx \in 0..(Len(dropdown_options) - 1)
    /\ scale_dropdown.selected_idx \in 0..(Len(scale_options) - 1)
    /\ mode = mode_map(dropdown_options[dropdown.selected_idx + 1])
    /\ scale_multiplier = scale_values(scale_options[scale_dropdown.selected_idx + 1])

\* a space press has just moved the mode on from one selected in the
\* dropdown
C26_Witness ==
    /\ op = "update" /\ Val(arg) = <<KeyDown("K_SPACE")>>
    /\ Val(before).mode = "wave"
    /\ mode = "radial" /\ dropdown.selected_idx = 4
    /\ scale_multiplier = None /\ scale_dropdown.selected_idx = 0

\* C27: at most one of the two dropdowns is open after any sequence of
\* events: the click that opens one of them closes the other.
C27_AtMostOneOpen ==
    /\ ~(dropdown.is_open /\ scale_dropdown.is_open)
    /\ (op = "update" /\ Len(Val(arg)) = 1) =>
          /\ (dropdown.is_open /\ ~Val(before).dropdown.is_open)
                => ~scale_dropdown.is_open
          /\ (scale_dropdown.is_open /\ ~Val(before).scale_dropdown.is_open)
                => ~dropdown.is_open

\* the mode dropdown was open and a click on the button of the scale
\* dropdown has opened that one and closed the mode dropdown
C27_Witness ==
    /\ op = "update"
    /\ Val(arg) = <<MouseButtonDown(1, OnButton(scale_dropdown_rect))>>
    /\ Val(before).dropdown.is_open /\ ~Val(before).scale_dropdown.is_open
    /\ scale_dropdown.is_open /\ ~dropdown.is_open

\* C25: with loop = True and at least CHUNK_SIZE frames of data, the k-th
\* read_chunk after start() (k from 0) returns the CHUNK_SIZE frames
\* data[(k * CHUNK_SIZE + j) mod L], j = 0..CHUNK_SIZE - 1; the cursor is
\* within 0..L after every call and stands at (k + 1) * CHUNK_SIZE modulo L;
\* start() sets the cursor to 0.
C25_LoopedReadsAreContiguous ==
    (loop /\ Len(Val(data)) >= CHUNK_SIZE) =>
        LET d == Val(data)
            L == Len(d)
        IN  /\ cursor \in 0..L
            /\ cursor % L = (Len(steps) * CHUNK_SIZE) % L
            /\ op = "FileAudioSource.start" => cursor = 0
            /\ op = "FileAudioSource.read_chunk" =>
                  LET k == Len(steps) - 1
                  IN  /\ Len(Val(ret)) = CHUNK_SIZE
                      /\ \A j \in 0..(CHUNK_SIZE - 1) :
                            Val(ret)[j + 1] = d[((k * CHUNK_SIZE + j) % L) + 1]

\* the third read or a later one has wrapped around the end of a file whose
\* length is not a multiple of CHUNK_SIZE
C25_Witness ==
    /\ op = "FileAudioSource.read_chunk" /\ loop
    /\ Len(Val(data)) > CHUNK_SIZE /\ Len(Val(data)) % CHUNK_SIZE # 0
    /\ Len(steps) >= 3
    /\ cursor < before
    /\ Val(ret)[CHUNK_SIZE] = Val(data)[cursor]

\* C28: immediately after every call of ParticleSystem.update every active
\* slot has age < lifetime, so its lifetime is positive and the life ratio
\* 1 - age / lifetime that draw computes lies in (0, 1].
C28_ActiveAgeBelowLifetime ==
    op = "update" =>
        \A i \in 1..particle_system.max_particles :
            particle_system.active[i] =>
                /\ particle_system.ages[i] < particle_system.lifetimes[i]
                /\ particle_system.lifetimes[i] > 0
                /\ LET life_ratio == ONE - FDiv(particle_system.ages[i] * ONE,
                                                particle_system.lifetimes[i] * ONE)
                   IN  life_ratio > 0 /\ life_ratio <= ONE

\* an update has just deactivated one particle and left another one update
\* short of its lifetime
C28_Witness ==
    /\ op = "update"
    /\ before = particle_system.particle_count + 1
    /\ \E i \in 1..particle_system.max_particles :
          /\ particle_system.active[i]
          /\ particle_system.ages[i] + 1 = particle_system.lifetimes[i]
    /\ \E i \in 1..particle_system.max_particles :
          /\ ~particle_system.active[i]
          /\ particle_system.lifetimes[i] > 0
          /\ particle_system.ages[i] = particle_system.lifetimes[i]

\* C29: in automatic mode a silent frame multiplies running_max by max_decay
\* and floors it at 1.0; running_max, the divisor of the normalization, is
\* never below 1.0; and if from some tick on every frame is silent,
\* running_max reaches exactly 1.0 and stays there.
C29_SilentFrame == arg # None /\ NpMax(Val(arg)) = 0

C29_Step ==
    (op' = "_normalize_spectrum" /\ NpMax(Val(arg')) = 0) =>
        /\ running_max' = IF (running_max * MAX_DECAY_MILLI) \div 1000 >= ONE
                          THEN (running_max * MAX_DECAY_MILLI) \div 1000
                          ELSE ONE
        /\ running_max' < running_max \/ running_max' = ONE

C29_SilenceDecaysToFloor ==
    /\ [](running_max >= ONE)
    /\ [][C29_Step]_<<op, arg, running_max>>
    /\ (<>[]C29_SilentFrame) => <>[](running_max = ONE)

\* a silent frame has just brought running_max from above the floor down
\* to exactly 1.0
C29_Witness ==
    /\ op = "_normalize_spectrum" /\ C29_SilentFrame
    /\ Val(before) > ONE
    /\ running_max = ONE

\* C30: in automatic mode, on a non-empty spectrum of non-negative
\* magnitudes, the maximum of the array _normalize_spectrum returns is the
\* frame maximum divided by the new running_max; it is exactly 1 when the
\* frame maximum exceeded the previous running_max, and at most
\* 1 / max_decay on every other call.
C30_NormalizedPeakBounded ==
    (op = "_normalize_spectrum" /\ scale_multiplier = None /\ raised = "none") =>
        LET cm == NpMax(Val(arg))
            peak == NpMax(Val(ret))
        IN  /\ peak = FDiv(cm, running_max)
            /\ cm > before => peak = ONE
            /\ cm <= before => peak <= (ONE * 1000) \div MAX_DECAY_MILLI
            /\ (cm <= before /\ peak > ONE) =>
                  cm * 1000 >= before * MAX_DECAY_MILLI

\* a frame whose maximum lies between max_decay times the previous
\* running_max and the previous running_max: the normalized peak exceeds 1
C30_Witness ==
    /\ op = "_normalize_spectrum" /\ scale_multiplier = None /\ raised = "none"
    /\ NpMax(Val(arg)) < before
    /\ NpMax(Val(arg)) * 1000 > before * MAX_DECAY_MILLI
    /\ NpMax(Val(ret)) > ONE

=============================================================================
